---- MODULE Spec2Model ----
(***************************************************************************)
(* Self-healing orchestration loop of protocol_zero.                       *)
(*                                                                         *)
(* Two orchestrator variants live in the repository:                       *)
(*   "fallback" : MAX_ATTEMPTS = 5, a failed fork falls back to the        *)
(*                original repository (part_004 lines 1-644), paired with  *)
(*                the non-retrying repo-manager (repo-manager.ts 711-1197) *)
(*   "required" : MAX_ATTEMPTS = 3, a failed fork aborts the session       *)
(*                (part_004 lines 646-1361), paired with the retrying      *)
(*                repo-manager (repo-manager.ts 1-708)                     *)
(* A (filePath, line) pair is abstracted to a location number.  A bug id   *)
(* is a uuid: the id of a bug object that was pushed to allBugs is its     *)
(* position in allBugs, every other bug object carries id 0, an id that    *)
(* matches no tracked bug.                                                 *)
(***************************************************************************)
EXTENDS Integers, Sequences, FiniteSets, TLC

\* ------------------------------------------------------------------ bounds
MaxLoc == 3
MaxScan == 2
MaxErr == 2
MaxBugs == 3
MaxCommits == 22
MaxContent == 1
MaxCalls == 2
MaxMsg == 2
MaxName == 2
MaxTail == 3
MaxWrites == 1

\* ------------------------------------------------------- program constants
MAX_ATTEMPTS_FALLBACK == 5
MAX_ATTEMPTS_REQUIRED == 3
SPEED_BONUS_THRESHOLD_SEC == 300
MAX_COMMITS_PENALTY_THRESHOLD == 20
SESSION_TIMEOUT_MS == 5 * 60 * 1000
maxRetries == 2
maxForkAttempts == 2

Policies == {"fallback", "required"}
Terminal == {"completed", "partial_success", "failed"}

VARIABLES
    policy,      \* which orchestrator variant runs this session
    pc,          \* position inside runHealingLoop
    attempt,     \* loop variable `attempt`
    status,      \* session status last handed to the session store
    errorMsg,    \* session error last handed to the session store
    allBugs,     \* const allBugs: HealingBug[]
    attempts,    \* const attempts: HealingAttempt[]
    repoDir,     \* let repoDir = "" (FALSE) or the sandbox path (TRUE)
    sandbox,     \* the session's sandbox directory exists on disk
    useFork,     \* fork succeeded; clone, push and PR head use the fork
    cloned,      \* repository the sandbox was cloned from
    bugsToFix,   \* bugs handed to fixAllBugs in the current attempt
    commits,     \* commits on the healing branch (getCommitCount)
    pushed,      \* some pushBranch call of the session succeeded
    testRuns,    \* runTests calls
    lastRun,     \* outcome of the latest runTests call
    finalTest,   \* outcome of the final-verification test run
    score,       \* score handed to finalizeSession
    prAttempts,  \* createPullRequest calls made by the orchestrator
    prHead,      \* owner used as PR head in the last createPullRequest call
    prUrl,       \* session field prUrl was written
    errorEvents, \* emitError calls
    logs,        \* notable emitLog lines
    threw,       \* step whose exception reached the top-level catch
    emitter,     \* progress emitter of the session
    timer,       \* setTimeout(removeSessionEmitter, 10000) is pending
    elapsedMs,   \* Date.now() - startTime, as last read
    scoreIn,     \* inputs of a stand-alone calculateScore call
    pr,          \* state of a stand-alone createPullRequest call
    git,         \* a repository directory under commitChanges calls
    branch,      \* a stand-alone getHealingBranchName call
    fork,        \* state of a stand-alone forkRepo call
    url,         \* a stand-alone parseGitHubUrl call
    sbx,         \* two sessions and the sandbox directories on disk
    fx,          \* the bug list of a session under scan and fix steps
    store,       \* session-store helper calls and the stored session document
    run,         \* a stand-alone runTests call
    remote       \* two sessions, their clones and the remote healing branch

sessVars == <<status, errorMsg>>
bugVars == <<allBugs, bugsToFix>>
gitVars == <<commits, pushed>>
prVars == <<prAttempts, prHead, prUrl>>
dirVars == <<repoDir, sandbox, useFork, cloned>>
emitVars == <<emitter, timer>>
orchVars == <<policy, sessVars, bugVars, gitVars, prVars, dirVars, emitVars,
              pc, attempt, attempts, testRuns, lastRun, finalTest, score,
              errorEvents, logs, threw, elapsedMs>>
unitVars == <<git, branch, fork, url, sbx, fx, store, run, remote>>
vars == <<orchVars, scoreIn, pr, unitVars>>

MAX_ATTEMPTS == IF policy = "required" THEN MAX_ATTEMPTS_REQUIRED
                ELSE MAX_ATTEMPTS_FALLBACK

\* what Date.now() - startTime can read after a reading of from, among the
\* readings the code tells apart: under the session limit, at the limit, over
\* the limit
Readings(from) ==
    {t \in {0, SESSION_TIMEOUT_MS, SESSION_TIMEOUT_MS + 1} : t >= from}

\* isTimedOut(startTime): Date.now() - startTime > SESSION_TIMEOUT_MS
isTimedOut(t) == t > SESSION_TIMEOUT_MS

NoScore == [set |-> FALSE]

\* no stand-alone calculateScore call, no stand-alone createPullRequest call
NoScoreIn ==
    [set |-> FALSE, bugs |-> <<>>, testsPassed |-> FALSE, attempts |-> 0,
     totalCommits |-> 0, timeMs |-> 0, prev |-> -1]

NoGit ==
    [pc |-> "idle", tree |-> 0, head |-> 0, count |-> 0, calls |-> 0,
     edited |-> FALSE, editedBefore |-> FALSE, wasClean |-> FALSE,
     before |-> 0, prev |-> "none", result |-> "none", gitOk |-> FALSE,
     msg |-> <<>>, committed |-> FALSE, message |-> <<>>, byLoop |-> FALSE,
     attempt |-> 0, rec |-> <<>>]

NoBranch == [pc |-> "idle", team |-> <<>>, leader |-> <<>>, out |-> <<>>]

NoFork ==
    [pc |-> "idle", token |-> FALSE, try |-> 0, status |-> 0,
     body |-> "none", waits |-> 0, ready |-> FALSE, result |-> "none",
     success |-> FALSE, forkOwner |-> "", error |-> <<>>]

NoUrl ==
    [pc |-> "idle", in |-> <<>>, result |-> "none", owner |-> <<>>,
     repo |-> <<>>]

NoSbx ==
    [pc |-> <<"idle", "idle">>, ids |-> <<<<>>, <<>>>>, fs |-> {},
     harmed |-> FALSE]

NoFx ==
    [pc |-> "idle", attempt |-> 0, all |-> <<>>, toFix |-> <<>>,
     handed |-> <<>>, applied |-> {}, synth |-> FALSE, errors |-> <<>>]

NoStore ==
    [pc |-> "idle", script |-> <<>>, made |-> <<>>, outcomes |-> <<>>,
     doc |-> "none", warned |-> 0, threw |-> FALSE]

NoRun ==
    [pc |-> "idle", skipInstall |-> FALSE, install |-> "none",
     exec |-> "none", lines |-> <<>>, returned |-> FALSE, threw |-> FALSE,
     passed |-> FALSE, exitCode |-> 0, errors |-> <<>>]

Sessions == {1, 2}

NoRemote ==
    [pc |-> "idle", variant |-> "first",
     at |-> [s \in Sessions |-> "start"],
     origin |-> [s \in Sessions |-> [target |-> "none", token |-> FALSE]],
     local |-> [s \in Sessions |-> <<>>],
     sent |-> [s \in Sessions |-> {}],
     heads |-> [t \in {"fork", "original"} |-> <<>>],
     last |-> [t \in {"fork", "original"} |-> 0],
     exists |-> {}, anon |-> {}]

\* the stand-alone units are not in use
UnitsIdle ==
    /\ git = NoGit
    /\ branch = NoBranch
    /\ fork = NoFork
    /\ url = NoUrl
    /\ sbx = NoSbx
    /\ fx = NoFx
    /\ store = NoStore
    /\ run = NoRun
    /\ remote = NoRemote

NoPr ==
    [pc |-> "idle", token |-> FALSE, head |-> "none", try |-> 0,
     resps |-> <<>>, lookup |-> "none", waits |-> 0, result |-> "none",
     prUrl |-> "none", prNumber |-> FALSE]

\* ---------------------------------------------------------------- scoring
\* Math.round(n / d) for n >= 0, d > 0 (round half up)
Round(n, d) == (2 * n + d) \div (2 * d)

Min(a, b) == IF a < b THEN a ELSE b
Max(a, b) == IF a > b THEN a ELSE b

RECURSIVE CountFixed(_)
\* bugs.filter((b) => b.fixed).length
CountFixed(bugs) ==
    IF bugs = <<>> THEN 0
    ELSE (IF Head(bugs).fixed THEN 1 ELSE 0) + CountFixed(Tail(bugs))

\* calculateScore without the clamp to [0, 100]
calculateScoreFallbackNoClamp(bugs, testsPassed, nAttempts, totalCommits, timeMs) ==
    LET totalBugs == Len(bugs)
        bugsFixed == CountFixed(bugs)
        bugPart == IF totalBugs > 0 THEN Round(bugsFixed * 60, totalBugs) ELSE 0
        testPart == IF testsPassed THEN 20 ELSE 0
        attemptPart == IF nAttempts <= 2 THEN 10
                       ELSE IF nAttempts <= 3 THEN 5 ELSE 0
        baseScore == bugPart + testPart + attemptPart
        speedBonus == IF timeMs < SPEED_BONUS_THRESHOLD_SEC * 1000 THEN 10 ELSE 0
        commitPenalty == IF totalCommits > MAX_COMMITS_PENALTY_THRESHOLD
                         THEN totalCommits - MAX_COMMITS_PENALTY_THRESHOLD
                         ELSE 0
        finalScore == baseScore + speedBonus - commitPenalty
    IN  [set |-> TRUE, totalBugs |-> totalBugs, bugsFixed |-> bugsFixed,
         testsPassed |-> testsPassed, attempts |-> nAttempts,
         totalCommits |-> totalCommits, timeSeconds |-> Round(timeMs, 1000),
         speedBonus |-> speedBonus, commitPenalty |-> commitPenalty,
         finalScore |-> finalScore]

\* calculateScore of the fallback orchestrator; timeMs is timeSeconds * 1000
calculateScoreFallback(bugs, testsPassed, nAttempts, totalCommits, timeMs) ==
    LET totalBugs == Len(bugs)
        bugsFixed == CountFixed(bugs)
        bugPart == IF totalBugs > 0 THEN Round(bugsFixed * 60, totalBugs) ELSE 0
        testPart == IF testsPassed THEN 20 ELSE 0
        attemptPart == IF nAttempts <= 2 THEN 10
                       ELSE IF nAttempts <= 3 THEN 5 ELSE 0
        baseScore == bugPart + testPart + attemptPart
        speedBonus == IF timeMs < SPEED_BONUS_THRESHOLD_SEC * 1000 THEN 10 ELSE 0
        commitPenalty == IF totalCommits > MAX_COMMITS_PENALTY_THRESHOLD
                         THEN totalCommits - MAX_COMMITS_PENALTY_THRESHOLD
                         ELSE 0
        finalScore == Max(0, Min(100, baseScore + speedBonus - commitPenalty))
    IN  [set |-> TRUE, totalBugs |-> totalBugs, bugsFixed |-> bugsFixed,
         testsPassed |-> testsPassed, attempts |-> nAttempts,
         totalCommits |-> totalCommits, timeSeconds |-> Round(timeMs, 1000),
         speedBonus |-> speedBonus, commitPenalty |-> commitPenalty,
         finalScore |-> finalScore]

\* calculateScore with the speed bonus granted at exactly 300 s
calculateScoreRequiredSpeedLe(bugs, testsPassed, nAttempts, totalCommits, timeMs) ==
    LET totalBugs == Len(bugs)
        bugsFixed == CountFixed(bugs)
        bugPart == IF totalBugs > 0 THEN Round(bugsFixed * 60, totalBugs) ELSE 0
        testPart == IF testsPassed THEN 20 ELSE 0
        attemptPart == IF nAttempts <= 2 THEN 10
                       ELSE IF nAttempts <= 3 THEN 5 ELSE 0
        baseScore == bugPart + testPart + attemptPart
        speedBonus == IF timeMs <= SPEED_BONUS_THRESHOLD_SEC * 1000 THEN 10 ELSE 0
        commitPenalty == IF totalCommits > MAX_COMMITS_PENALTY_THRESHOLD
                         THEN totalCommits - MAX_COMMITS_PENALTY_THRESHOLD
                         ELSE 0
        finalScore == Max(0, Min(100, baseScore + speedBonus - commitPenalty))
    IN  [set |-> TRUE, totalBugs |-> totalBugs, bugsFixed |-> bugsFixed,
         testsPassed |-> testsPassed, attempts |-> nAttempts,
         totalCommits |-> totalCommits, timeSeconds |-> Round(timeMs, 1000),
         speedBonus |-> speedBonus, commitPenalty |-> commitPenalty,
         finalScore |-> finalScore]

\* calculateScore whose bug term counts the bugs that are not fixed
calculateScoreRequiredByUnfixed(bugs, testsPassed, nAttempts, totalCommits, timeMs) ==
    LET totalBugs == Len(bugs)
        bugsFixed == CountFixed(bugs)
        bugPart == IF totalBugs > 0 THEN Round((totalBugs - bugsFixed) * 60, totalBugs) ELSE 0
        testPart == IF testsPassed THEN 20 ELSE 0
        attemptPart == IF nAttempts <= 2 THEN 10
                       ELSE IF nAttempts <= 3 THEN 5 ELSE 0
        baseScore == bugPart + testPart + attemptPart
        speedBonus == IF timeMs < SPEED_BONUS_THRESHOLD_SEC * 1000 THEN 10 ELSE 0
        commitPenalty == IF totalCommits > MAX_COMMITS_PENALTY_THRESHOLD
                         THEN totalCommits - MAX_COMMITS_PENALTY_THRESHOLD
                         ELSE 0
        finalScore == Max(0, Min(100, baseScore + speedBonus - commitPenalty))
    IN  [set |-> TRUE, totalBugs |-> totalBugs, bugsFixed |-> bugsFixed,
         testsPassed |-> testsPassed, attempts |-> nAttempts,
         totalCommits |-> totalCommits, timeSeconds |-> Round(timeMs, 1000),
         speedBonus |-> speedBonus, commitPenalty |-> commitPenalty,
         finalScore |-> finalScore]

\* calculateScore of the fork-required orchestrator
calculateScoreRequired(bugs, testsPassed, nAttempts, totalCommits, timeMs) ==
    LET totalBugs == Len(bugs)
        bugsFixed == CountFixed(bugs)
        bugPart == IF totalBugs > 0 THEN Round(bugsFixed * 60, totalBugs) ELSE 0
        testPart == IF testsPassed THEN 20 ELSE 0
        attemptPart == IF nAttempts <= 2 THEN 10
                       ELSE IF nAttempts <= 3 THEN 5 ELSE 0
        baseScore == bugPart + testPart + attemptPart
        speedBonus == IF timeMs < SPEED_BONUS_THRESHOLD_SEC * 1000 THEN 10 ELSE 0
        commitPenalty == IF totalCommits > MAX_COMMITS_PENALTY_THRESHOLD
                         THEN totalCommits - MAX_COMMITS_PENALTY_THRESHOLD
                         ELSE 0
        finalScore == Max(0, Min(100, baseScore + speedBonus - commitPenalty))
    IN  [set |-> TRUE, totalBugs |-> totalBugs, bugsFixed |-> bugsFixed,
         testsPassed |-> testsPassed, attempts |-> nAttempts,
         totalCommits |-> totalCommits, timeSeconds |-> Round(timeMs, 1000),
         speedBonus |-> speedBonus, commitPenalty |-> commitPenalty,
         finalScore |-> finalScore]

calculateScore(p, bugs, testsPassed, nAttempts, totalCommits, timeMs) ==
    IF p = "required"
    THEN calculateScoreRequired(bugs, testsPassed, nAttempts, totalCommits, timeMs)
    ELSE calculateScoreFallback(bugs, testsPassed, nAttempts, totalCommits, timeMs)

\* ------------------------------------------------------------ bug tracking
NewBug(id, loc) == [id |-> id, loc |-> loc, fixed |-> FALSE, fixedAtAttempt |-> 0]

\* allBugs.find((b) => b.filePath === bug.filePath && b.line === bug.line)
Tracked(all, loc) == \E i \in 1..Len(all) : all[i].loc = loc

\* allBugs.find((b) => ... && b.fixed)
TrackedFixed(all, loc) == \E i \in 1..Len(all) : all[i].loc = loc /\ all[i].fixed

RECURSIVE FilterScan(_, _, _)
\* fork-required: the loop over the scanner's bugs; all is allBugs, new is
\* genuinelyNewBugs
FilterScan(scan, all, new) ==
    IF scan = <<>> THEN [all |-> all, new |-> new, synth |-> FALSE]
    ELSE LET loc == Head(scan)
             bug == NewBug(IF Tracked(all, loc) THEN 0 ELSE Len(all) + 1, loc)
         IN  IF TrackedFixed(all, loc)
             THEN FilterScan(Tail(scan), all, new)
             ELSE FilterScan(Tail(scan),
                             IF Tracked(all, loc) THEN all ELSE Append(all, bug),
                             Append(new, bug))

\* test errors taken without looking for a fixed bug at their location
UnfixedErrorsUnfiltered(errors, all) == errors

RECURSIVE UnfixedErrors(_, _)
\* testResult.errors.filter((e) => !allBugs.some(... && b.fixed))
UnfixedErrors(errors, all) ==
    IF errors = <<>> THEN <<>>
    ELSE IF TrackedFixed(all, Head(errors))
         THEN UnfixedErrors(Tail(errors), all)
         ELSE <<Head(errors)>> \o UnfixedErrors(Tail(errors), all)

RECURSIVE TrackSynthUnchecked(_, _, _)
\* synthesized bugs pushed without looking for a tracked location
TrackSynthUnchecked(locs, all, out) ==
    IF locs = <<>> THEN [all |-> all, new |-> out, synth |-> FALSE]
    ELSE LET bug == NewBug(Len(all) + 1, Head(locs))
         IN  TrackSynthUnchecked(Tail(locs), Append(all, bug), Append(out, bug))

RECURSIVE TrackSynth(_, _, _)
\* fork-required: bugs synthesized from test errors, each pushed to allBugs
\* unless its location is tracked already
TrackSynth(locs, all, out) ==
    IF locs = <<>> THEN [all |-> all, new |-> out, synth |-> FALSE]
    ELSE LET loc == Head(locs)
             bug == NewBug(IF Tracked(all, loc) THEN 0 ELSE Len(all) + 1, loc)
         IN  TrackSynth(Tail(locs),
                        IF Tracked(all, loc) THEN all ELSE Append(all, bug),
                        Append(out, bug))

RECURSIVE TrackScan(_, _, _)
\* fallback: the loop over the scanner's bugs; every scanned bug goes to the
\* fix step, only bugs at untracked locations are pushed to allBugs
TrackScan(scan, all, out) ==
    IF scan = <<>> THEN [all |-> all, new |-> out, synth |-> FALSE]
    ELSE LET loc == Head(scan)
             bug == NewBug(IF Tracked(all, loc) THEN 0 ELSE Len(all) + 1, loc)
         IN  TrackScan(Tail(scan),
                       IF Tracked(all, loc) THEN all ELSE Append(all, bug),
                       Append(out, bug))

\* index of allBugs.find((b) => b.id === bugId), 0 when there is none
FindById(all, bugId) ==
    IF \E i \in 1..Len(all) : all[i].id = bugId
    THEN CHOOSE i \in 1..Len(all) :
            /\ all[i].id = bugId
            /\ \A j \in 1..(i - 1) : all[j].id # bugId
    ELSE 0

\* a marking that finds the bug by its location instead of its id
MarkFixedByLocation(all, toFix, applied, k) ==
    [i \in 1..Len(all) |->
        IF \E j \in applied : toFix[j].loc = all[i].loc
        THEN [all[i] EXCEPT !.fixed = TRUE, !.fixedAtAttempt = k]
        ELSE all[i]]

\* the loop over fixResult.results: applied is the set of indices of toFix
\* whose result has applied = true
MarkFixed(all, toFix, applied, k) ==
    [i \in 1..Len(all) |->
        IF \E j \in applied : FindById(all, toFix[j].id) = i
        THEN [all[i] EXCEPT !.fixed = TRUE, !.fixedAtAttempt = k]
        ELSE all[i]]

\* sequences over S of length at most n
SeqsUpTo(S, n) == UNION {[1..k -> S] : k \in 0..n}

\* ------------------------------------------------------------ session store
\* updateSessionStatus(sessionId, status, error?) with the store reachable;
\* e = "none" stands for an omitted error
UpdateSessionStatus(s, e) ==
    /\ status' = s
    /\ errorMsg' = IF e = "none" THEN errorMsg ELSE e

\* finalizeSession(sessionId, status, bugs, attempts, score)
FinalizeSession(s, sc) ==
    /\ status' = s
    /\ errorMsg' = errorMsg
    /\ score' = sc

\* a cleanup that removes nothing
cleanupSandboxKeeps(exists) == exists

\* cleanupSandbox(sessionId): the directory is gone afterwards, whether or
\* not it existed
cleanupSandbox(exists) == FALSE

\* the finally block of runHealingLoop, run on every exit from the try block;
\* dir tells whether the sandbox directory exists when the block is entered.
\* The cleanup is guarded by repoDir; removal of the emitter is scheduled.
FinallyBlock(dir) ==
    /\ sandbox' = IF repoDir THEN cleanupSandbox(dir) ELSE dir
    /\ timer' = TRUE
    /\ pc' = "done"

\* the top-level catch of runHealingLoop: emitError, status failed with the
\* exception message; then the finally block
Catch(step, dir) ==
    /\ threw' = step
    /\ errorEvents' = errorEvents + 1
    /\ UpdateSessionStatus("failed", step)
    /\ FinallyBlock(dir)

\* a PR whose head is always the original owner
AttemptCreatePRFromOriginal ==
    \E ok \in BOOLEAN :
        /\ prAttempts' = prAttempts + 1
        /\ prHead' = "original"
        /\ prUrl' = (prUrl \/ ok)

\* attemptCreatePR / the inlined createPullRequest calls: one call, whose head
\* owner is forkOwner (the original owner when no fork is used)
AttemptCreatePR ==
    \E ok \in BOOLEAN :
        /\ prAttempts' = prAttempts + 1
        /\ prHead' = IF useFork THEN "fork" ELSE "original"
        /\ prUrl' = (prUrl \/ ok)

\* an Attempt record that loses the passed status
AttemptRecordAlwaysFailed(k, st, sha) ==
    [attempt |-> k, status |-> "failed", commitSha |-> sha,
     commitMessage |-> IF sha THEN "[AI-AGENT] " ELSE ""]

\* a HealingAttempt record
AttemptRecord(k, st, sha) ==
    [attempt |-> k, status |-> st, commitSha |-> sha,
     commitMessage |-> IF sha THEN "[AI-AGENT] " ELSE ""]

\* Locations are named in order of discovery: with n locations tracked, a
\* location that is not tracked yet is n + 1, the next one n + 2, and so on.
\* The order in which one report lists its locations only orders bugsToFix,
\* of which the fix step may fix any part, so a report is taken in ascending
\* order of location; a location may be listed more than once.
IsCanon(s, n) ==
    \A i \in 1..Len(s) :
        LET prev == IF i = 1 THEN 0 ELSE s[i - 1]
        IN  /\ prev <= s[i]
            /\ s[i] <= Max(prev, n) + 1

CanonSeqs(n, maxLen) == {s \in SeqsUpTo(1..MaxLoc, maxLen) : IsCanon(s, n)}

\* ---------------------------------------------------------- runHealingLoop
\* the locals and the session record when runHealingLoop is entered (at =
\* "start"), or with no session running (at = "idle")
OrchInit(at) ==
    /\ pc = at
    /\ attempt = 0
    /\ status = "cloning"
    /\ errorMsg = "none"
    /\ allBugs = <<>>
    /\ attempts = <<>>
    /\ repoDir = FALSE
    /\ sandbox = FALSE
    /\ useFork = FALSE
    /\ cloned = "none"
    /\ bugsToFix = <<>>
    /\ commits = 0
    /\ pushed = FALSE
    /\ testRuns = 0
    /\ lastRun = "none"
    /\ finalTest = "none"
    /\ score = NoScore
    /\ prAttempts = 0
    /\ prHead = "none"
    /\ prUrl = FALSE
    /\ errorEvents = 0
    /\ logs = {}
    /\ threw = "none"
    /\ emitter = "none"
    /\ timer = FALSE
    /\ elapsedMs = 0

Init ==
    /\ policy \in Policies
    /\ OrchInit("start")
    /\ scoreIn = NoScoreIn
    /\ pr = NoPr
    /\ UnitsIdle

\* a parse failure handled without the return
ParseUrlGoesOn ==
    /\ pc = "start"
    /\ UpdateSessionStatus("failed", "parse")
    /\ errorEvents' = errorEvents + 1
    /\ emitter' = "registered"
    /\ pc' = "fork"
    /\ UNCHANGED <<policy, bugVars, gitVars, prVars, dirVars, timer, attempt,
                   attempts, testRuns, lastRun, finalTest, score, logs, threw,
                   elapsedMs, scoreIn, pr, unitVars>>

\* getSessionEmitter, then parseGitHubUrl inside its own try/catch
ParseUrl ==
    /\ pc = "start"
    /\ \E ok \in BOOLEAN :
        IF ok
        THEN /\ emitter' = "registered"
             /\ pc' = "fork"
             /\ UNCHANGED <<sessVars, errorEvents>>
        ELSE /\ UpdateSessionStatus("failed", "parse")
             /\ errorEvents' = errorEvents + 1
             /\ emitter' = "removed"
             /\ pc' = "done"
    /\ UNCHANGED <<policy, bugVars, gitVars, prVars, dirVars, timer, attempt,
                   attempts, testRuns, lastRun, finalTest, score, logs, threw,
                   elapsedMs, scoreIn, pr, unitVars>>

\* every orchestrator treating a failed fork as fatal
ForkFailureIsFatalAlways == TRUE

\* every orchestrator going on to the original repository
ForkFailureIsFatalNever == FALSE

\* what the orchestrator does with forkResult.success = false: the
\* fork-required loop returns failed, the fallback loop goes on without a fork
ForkFailureIsFatal == policy = "required"

\* PHASE 0: forkRepo; r = "throw" is getBotToken throwing (token not set)
Fork ==
    /\ pc = "fork"
    /\ \E r \in {"ok", "fail", "throw"} :
        \/ /\ r = "ok"
           /\ useFork' = TRUE
           /\ pc' = "clone"
           /\ IF policy = "required"
              THEN UpdateSessionStatus("cloning", "none")
              ELSE UNCHANGED sessVars
           /\ UNCHANGED <<errorEvents, logs, threw, sandbox, timer>>
        \/ /\ r = "fail"
           /\ logs' = logs \cup {"forkFailed"}
           /\ IF ForkFailureIsFatal
              THEN /\ errorEvents' = errorEvents + 1
                   /\ UpdateSessionStatus("failed", "fork")
                   /\ FinallyBlock(sandbox)
              ELSE /\ pc' = "clone"
                   /\ UNCHANGED <<sessVars, errorEvents, sandbox, timer>>
           /\ UNCHANGED <<useFork, threw>>
        \/ /\ r = "throw"
           /\ Catch("token", sandbox)
           /\ UNCHANGED <<useFork, logs>>
    /\ UNCHANGED <<policy, bugVars, gitVars, prVars, repoDir, cloned,
                   emitter, attempt, attempts, testRuns, lastRun, finalTest, score,
                   elapsedMs, scoreIn, pr, unitVars>>

\* PHASE 1: cloneRepo of the fork, or of the original repository when the
\* fallback orchestrator has no fork; a failed git clone may leave a partly
\* written directory behind
Clone ==
    /\ pc = "clone"
    /\ \E ok \in BOOLEAN, left \in BOOLEAN :
        IF ok
        THEN /\ left = TRUE
             /\ repoDir' = TRUE
             /\ sandbox' = TRUE
             /\ cloned' = IF useFork THEN "fork" ELSE "original"
             /\ pc' = "branch"
             /\ IF policy = "fallback"
                THEN UpdateSessionStatus("cloning", "none")
                ELSE UNCHANGED sessVars
             /\ UNCHANGED <<threw, errorEvents, timer>>
        ELSE /\ Catch("clone", left)
             /\ UNCHANGED <<repoDir, cloned>>
    /\ UNCHANGED <<policy, bugVars, gitVars, prVars, useFork, emitter,
                   attempt, attempts, testRuns, lastRun, finalTest, score, logs,
                   elapsedMs, scoreIn, pr, unitVars>>

\* createBranch (and, fork-required, installDependencies, which never throws)
CreateBranch ==
    /\ pc = "branch"
    /\ \E ok \in BOOLEAN :
        IF ok
        THEN /\ attempt' = 1
             /\ pc' = "loop"
             /\ UNCHANGED <<sessVars, threw, errorEvents, sandbox, timer>>
        ELSE /\ Catch("branch", sandbox)
             /\ UNCHANGED attempt
    /\ UNCHANGED <<policy, bugVars, gitVars, prVars, repoDir, useFork, cloned,
                   emitter,
                   attempts, testRuns, lastRun, finalTest, score, logs, elapsedMs,
                   scoreIn, pr, unitVars>>

\* a success exit without its return: the loop is left for the final
\* verification
SuccessExitNoReturn(bugs, from) ==
    /\ attempts' = Append(attempts, AttemptRecord(attempt, "passed", FALSE))
    /\ \E now \in Readings(from) :
        /\ elapsedMs' = now
        /\ FinalizeSession("completed",
               calculateScore(policy, bugs, TRUE, attempt, commits, now))
    /\ AttemptCreatePR
    /\ pc' = "final"
    /\ UNCHANGED <<sandbox, timer>>

\* the tests-passed exit and the no-unresolved-bugs exit: record a passed
\* attempt, score with testsPassed = true, finalize completed, attempt the PR,
\* return (the finally block follows)
SuccessExit(bugs, from) ==
    /\ attempts' = Append(attempts, AttemptRecord(attempt, "passed", FALSE))
    /\ \E now \in Readings(from) :
        /\ elapsedMs' = now
        /\ FinalizeSession("completed",
               calculateScore(policy, bugs, TRUE, attempt, commits, now))
    /\ AttemptCreatePR
    /\ FinallyBlock(sandbox)

\* a timeout check that goes on to the next attempt
TimeoutContinue(t) ==
    /\ policy = "required"
    /\ isTimedOut(t)
    /\ elapsedMs' = t
    /\ logs' = logs \cup {"timeout"}
    /\ pc' = "loop"

\* a timeout check that reads t; break: leave the for loop for the final
\* verification
TimeoutBreak(t) ==
    /\ policy = "required"
    /\ isTimedOut(t)
    /\ elapsedMs' = t
    /\ logs' = logs \cup {"timeout"}
    /\ pc' = "final"

\* a timeout check that reads t and goes on; the fallback loop has no such
\* check and does not read the clock
NoTimeout(t) ==
    IF policy = "required" THEN ~isTimedOut(t) ELSE t = elapsedMs

\* top of the for loop: timeout check (fork-required), status scanning
LoopHead ==
    /\ pc = "loop"
    /\ \E t \in Readings(elapsedMs) :
        \/ /\ TimeoutBreak(t)
           /\ UNCHANGED sessVars
        \/ /\ NoTimeout(t)
           /\ elapsedMs' = t
           /\ UpdateSessionStatus("scanning", "none")
           /\ pc' = "test"
           /\ UNCHANGED logs
    /\ UNCHANGED <<policy, bugVars, gitVars, prVars, dirVars, emitVars,
                   attempt, attempts, testRuns, lastRun, finalTest, score, errorEvents,
                   threw, scoreIn, pr, unitVars>>

\* status testing, runTests (never throws), and the tests-passed exit
RunTests ==
    /\ pc = "test"
    /\ testRuns' = testRuns + 1
    /\ \E passed \in BOOLEAN :
        /\ lastRun' = IF passed THEN "passed" ELSE "failed"
        /\ IF passed
           THEN /\ SuccessExit(allBugs, elapsedMs)
                /\ UNCHANGED bugVars
           ELSE /\ UpdateSessionStatus("testing", "none")
                /\ pc' = "scan"
                /\ UNCHANGED <<bugVars, attempts, score, prVars, sandbox,
                               timer, elapsedMs>>
    /\ UNCHANGED <<policy, gitVars, repoDir, useFork, cloned, emitter,
                   attempt, finalTest,
                   errorEvents, logs, threw, scoreIn, pr, unitVars>>

\* a fork-required loop that never goes on to the test errors
BugsToFixNoSynthesis(f, errors) == f

\* fork-required: genuinelyNewBugs, then bugs synthesized from the test
\* errors when the scanner gave nothing actionable
BugsToFixRequired(f, errors) ==
    IF f.new = <<>> /\ errors # <<>>
    THEN [TrackSynth(UnfixedErrors(errors, f.all), f.all, <<>>)
             EXCEPT !.synth = TRUE]
    ELSE f

\* scanForBugs and the loop over its bugs; the fork-required orchestrator
\* goes on to its test errors when the scanner gave nothing actionable
Scan ==
    /\ pc = "scan"
    /\ \E t \in Readings(elapsedMs) :
        \/ /\ TimeoutBreak(t)
           /\ UNCHANGED <<sessVars, bugVars, errorEvents, threw, sandbox,
                          timer>>
        \/ /\ NoTimeout(t)
           /\ elapsedMs' = t
           /\ Catch("scan", sandbox)
           /\ UNCHANGED <<bugVars, logs>>
        \/ /\ NoTimeout(t)
           /\ elapsedMs' = t
           \* the scanner's output, by location (duplicates allowed)
           /\ \E scan \in CanonSeqs(Len(allBugs), MaxScan) :
               LET f == IF policy = "required"
                        THEN FilterScan(scan, allBugs, <<>>)
                        ELSE TrackScan(scan, allBugs, <<>>)
               IN  /\ allBugs' = f.all
                   /\ bugsToFix' = f.new
                   /\ pc' = IF policy = "required" /\ f.new = <<>>
                            THEN "synth" ELSE "fix"
           /\ UpdateSessionStatus("scanning", "none")
           /\ UNCHANGED <<logs, errorEvents, threw, sandbox, timer>>
    /\ UNCHANGED <<policy, gitVars, prVars, repoDir, useFork, cloned, emitter,
                   attempt, attempts, testRuns, lastRun, finalTest, score,
                   scoreIn, pr, unitVars>>

\* fork-required, genuinelyNewBugs empty: bugs synthesized from the errors
\* of the failed test run, and the no-unresolved-bugs exit when there are none
Synthesize ==
    /\ pc = "synth"
    \* testResult.errors of the failed run, by location (two parsed errors
    \* may share a location)
    /\ \E errors \in CanonSeqs(Len(allBugs), MaxErr) :
        LET r == BugsToFixRequired(
                     [all |-> allBugs, new |-> <<>>, synth |-> FALSE], errors)
        IN  /\ allBugs' = r.all
            /\ logs' = IF r.synth THEN logs \cup {"synth"} ELSE logs
            /\ IF r.new = <<>>
               THEN /\ SuccessExit(r.all, elapsedMs)
                    /\ UNCHANGED bugsToFix
               ELSE /\ bugsToFix' = r.new
                    /\ pc' = "fix"
                    /\ UNCHANGED <<sessVars, attempts, score, prVars,
                                   sandbox, timer, elapsedMs>>
    /\ UNCHANGED <<policy, gitVars, repoDir, useFork, cloned, emitter,
                   attempt, testRuns, lastRun, finalTest, errorEvents, threw,
                   scoreIn, pr, unitVars>>

\* fixAllBugs without the write of "fixing" before it
FixUnannounced ==
    /\ pc = "fix"
    /\ \E t \in Readings(elapsedMs) :
        \/ /\ TimeoutBreak(t)
           /\ UNCHANGED <<sessVars, allBugs, errorEvents, threw, sandbox,
                          timer>>
        \/ /\ NoTimeout(t)
           /\ elapsedMs' = t
           /\ Catch("fix", sandbox)
           /\ UNCHANGED <<allBugs, logs>>
        \/ /\ NoTimeout(t)
           /\ elapsedMs' = t
           /\ \E applied \in SUBSET (1..Len(bugsToFix)) :
               allBugs' = MarkFixed(allBugs, bugsToFix, applied, attempt)
           /\ pc' = "push"
           /\ UNCHANGED <<sessVars, logs, errorEvents, threw, sandbox, timer>>
    /\ bugsToFix' = <<>>
    /\ UNCHANGED <<policy, gitVars, prVars, repoDir, useFork,
                   cloned, emitter, attempt, attempts, testRuns, lastRun, finalTest, score,
                   scoreIn, pr, unitVars>>

\* fixAllBugs and the marking of applied fixes
Fix ==
    /\ pc = "fix"
    /\ \E t \in Readings(elapsedMs) :
        \/ /\ TimeoutBreak(t)
           /\ UNCHANGED <<sessVars, allBugs, errorEvents, threw, sandbox,
                          timer>>
        \/ /\ NoTimeout(t)
           /\ elapsedMs' = t
           /\ Catch("fix", sandbox)
           /\ UNCHANGED <<allBugs, logs>>
        \/ /\ NoTimeout(t)
           /\ elapsedMs' = t
           /\ \E applied \in SUBSET (1..Len(bugsToFix)) :
               allBugs' = MarkFixed(allBugs, bugsToFix, applied, attempt)
           /\ UpdateSessionStatus("fixing", "none")
           /\ pc' = "push"
           /\ UNCHANGED <<logs, errorEvents, threw, sandbox, timer>>
    /\ bugsToFix' = <<>>
    /\ UNCHANGED <<policy, gitVars, prVars, repoDir, useFork,
                   cloned, emitter, attempt, attempts, testRuns, lastRun, finalTest, score,
                   scoreIn, pr, unitVars>>

\* a loop condition that is off by one
LoopContinuesOffByOne(k) == k <= MAX_ATTEMPTS + 1

\* the loop condition: attempt <= MAX_ATTEMPTS
LoopContinues(k) == k <= MAX_ATTEMPTS

\* an end of iteration that writes its record over the last one
RecordAttemptOverwrites(sha) ==
    /\ attempts' =
         IF attempts = <<>>
         THEN <<AttemptRecord(attempt, "failed", sha)>>
         ELSE [attempts EXCEPT
                  ![Len(attempts)] = AttemptRecord(attempt, "failed", sha)]
    /\ attempt' = attempt + 1
    /\ pc' = IF LoopContinues(attempt + 1) THEN "loop" ELSE "final"

\* the end of one iteration: append the failed Attempt record, attempt++
RecordAttempt(sha) ==
    /\ attempts' = Append(attempts, AttemptRecord(attempt, "failed", sha))
    /\ attempt' = attempt + 1
    /\ pc' = IF LoopContinues(attempt + 1) THEN "loop" ELSE "final"

\* every orchestrator letting a failed push reach the top-level catch
PushFailureIsFatalAlways == TRUE

\* the fork-required loop calls pushBranch inside try/catch and logs the
\* failure; the fallback loop calls it bare
PushFailureIsFatal == policy = "fallback"

\* commitChanges, pushBranch, Attempt record
CommitPush ==
    /\ pc = "push"
    /\ \E t \in Readings(elapsedMs) :
        \/ /\ TimeoutBreak(t)
           /\ UNCHANGED <<sessVars, gitVars, attempt, attempts,
                          errorEvents, threw, sandbox, timer>>
        \/ /\ NoTimeout(t)
           /\ elapsedMs' = t
           /\ Catch("commit", sandbox)
           /\ UNCHANGED <<gitVars, attempt, attempts, logs>>
        \/ /\ NoTimeout(t)
           /\ elapsedMs' = t
           /\ UpdateSessionStatus("pushing", "none")
           /\ RecordAttempt(FALSE)
           /\ UNCHANGED <<gitVars, logs, errorEvents, threw, sandbox, timer>>
        \/ /\ NoTimeout(t)
           /\ elapsedMs' = t
           /\ commits' = commits + 1
           /\ \E ok \in BOOLEAN :
               \/ /\ ok
                  /\ pushed' = TRUE
                  /\ UpdateSessionStatus("pushing", "none")
                  /\ RecordAttempt(TRUE)
                  /\ UNCHANGED <<logs, errorEvents, threw, sandbox, timer>>
               \/ /\ ~ok
                  /\ ~PushFailureIsFatal
                  /\ logs' = logs \cup {"pushFailed"}
                  /\ UpdateSessionStatus("pushing", "none")
                  /\ RecordAttempt(TRUE)
                  /\ UNCHANGED <<pushed, errorEvents, threw, sandbox, timer>>
               \/ /\ ~ok
                  /\ PushFailureIsFatal
                  /\ Catch("push", sandbox)
                  /\ UNCHANGED <<pushed, attempt, attempts, logs>>
    /\ UNCHANGED <<policy, bugVars, prVars, repoDir, useFork, cloned,
                   emitter, testRuns, lastRun, finalTest, score, scoreIn,
                   pr, unitVars>>

\* a final verification that never reports a partial success
FinalStatusStrict(passed, bugsFixed) ==
    IF passed THEN "completed" ELSE "failed"

\* the status final verification finalizes the session with
FinalStatus(passed, bugsFixed) ==
    IF passed THEN "completed"
    ELSE IF policy = "required" /\ bugsFixed > 0 THEN "partial_success"
    ELSE "failed"

\* final verification after the loop: one test run decides the outcome
FinalVerification ==
    /\ pc = "final"
    /\ testRuns' = testRuns + 1
    /\ \E passed \in BOOLEAN, now \in Readings(elapsedMs) :
        LET sc == calculateScore(policy, allBugs, passed, MAX_ATTEMPTS,
                                 commits, now)
        IN  /\ elapsedMs' = now
            /\ finalTest' = IF passed THEN "passed" ELSE "failed"
            /\ lastRun' = IF passed THEN "passed" ELSE "failed"
            /\ FinalizeSession(FinalStatus(passed, sc.bugsFixed), sc)
            /\ IF passed \/ sc.bugsFixed > 0
               THEN AttemptCreatePR
               ELSE UNCHANGED prVars
    /\ FinallyBlock(sandbox)
    /\ UNCHANGED <<policy, bugVars, gitVars, repoDir, useFork, cloned,
                   emitter, attempt, attempts, errorEvents, logs, threw,
                   scoreIn, pr, unitVars>>

\* the setTimeout callback, 10 s after the finally block
RemoveEmitter ==
    /\ timer
    /\ timer' = FALSE
    /\ emitter' = "removed"
    /\ UNCHANGED <<policy, sessVars, bugVars, gitVars, prVars, dirVars, pc,
                   attempt, attempts, testRuns, lastRun, finalTest, score, errorEvents,
                   logs, threw, elapsedMs, scoreIn, pr, unitVars>>

Step ==
    \/ ParseUrl
    \/ Fork
    \/ Clone
    \/ CreateBranch
    \/ LoopHead
    \/ RunTests
    \/ Scan
    \/ Synthesize
    \/ Fix
    \/ CommitPush
    \/ FinalVerification

Next ==
    \/ Step
    \/ RemoveEmitter

Spec == Init /\ [][Next]_vars

\* the fork-required orchestrator alone; every external call returns, so a
\* step of runHealingLoop that can be taken is eventually taken
InitRequired == Init /\ policy = "required"

SpecRequired == InitRequired /\ [][Next]_vars /\ WF_vars(Step)

\* --------------------------------------------------------- calculateScore
\* the arguments of one calculateScore call; the i-th bug of the list is
\* fixed iff f[i]
ScoreInputs ==
    {[set |-> TRUE,
      bugs |-> [i \in 1..Len(f) |-> [NewBug(i, i) EXCEPT !.fixed = f[i]]],
      testsPassed |-> t, attempts |-> a,
      totalCommits |-> c, timeMs |-> ms, prev |-> -1] :
        f \in SeqsUpTo(BOOLEAN, MaxBugs), t \in BOOLEAN,
        a \in 1..MAX_ATTEMPTS_FALLBACK,
        c \in (0..MaxCommits) \cup {60, 61, 120, 121, 1000},
        ms \in {0, SPEED_BONUS_THRESHOLD_SEC * 1000 - 1,
                SPEED_BONUS_THRESHOLD_SEC * 1000,
                SPEED_BONUS_THRESHOLD_SEC * 1000 + 1}}

InitScore ==
    /\ policy \in Policies
    /\ OrchInit("idle")
    /\ scoreIn \in ScoreInputs
    /\ pr = NoPr
    /\ UnitsIdle

ScoreOf(in) ==
    calculateScore(policy, in.bugs, in.testsPassed, in.attempts,
                   in.totalCommits, in.timeMs)

\* a call of calculateScore on the given arguments
ScoreCall ==
    /\ scoreIn.set
    /\ ~score.set
    /\ score' = ScoreOf(scoreIn)
    /\ UNCHANGED <<policy, sessVars, bugVars, gitVars, prVars, dirVars,
                   emitVars, pc, attempt, attempts, testRuns, lastRun,
                   finalTest, errorEvents, logs, threw, elapsedMs, scoreIn, pr, unitVars>>

\* bugs with the first bug that is not fixed marked fixed
RECURSIVE FixFirst(_)
FixFirst(bugs) ==
    IF bugs = <<>> THEN <<>>
    ELSE IF ~Head(bugs).fixed
         THEN <<[Head(bugs) EXCEPT !.fixed = TRUE]>> \o Tail(bugs)
         ELSE <<Head(bugs)>> \o FixFirst(Tail(bugs))

\* a second call of calculateScore, with one more bug marked fixed and every
\* other argument as before
ScoreAgain ==
    /\ scoreIn.set
    /\ score.set
    /\ CountFixed(scoreIn.bugs) < Len(scoreIn.bugs)
    /\ scoreIn' = [scoreIn EXCEPT !.bugs = FixFirst(scoreIn.bugs),
                                  !.prev = score.finalScore]
    /\ score' = ScoreOf(scoreIn')
    /\ UNCHANGED <<policy, sessVars, bugVars, gitVars, prVars, dirVars,
                   emitVars, pc, attempt, attempts, testRuns, lastRun,
                   finalTest, errorEvents, logs, threw, elapsedMs, pr, unitVars>>

SpecScore == InitScore /\ [][ScoreCall \/ ScoreAgain]_vars

\* -------------------------------------------------------- createPullRequest
\* the retrying createPullRequest goes with the fork-required orchestrator,
\* the plain one with the fallback orchestrator
Retrying == policy = "required"

\* outcome of one POST /repos/{owner}/{repo}/pulls: the four failures are a
\* 422 without the already-exists message, a 403, a 500 and a rejected fetch
PrFailures == {"other422", "forbidden403", "server500", "networkError"}

InitPR ==
    /\ policy \in Policies
    /\ OrchInit("idle")
    /\ scoreIn = NoScoreIn
    /\ UnitsIdle
    /\ \E t \in BOOLEAN, h \in {"fork", "original"} :
          pr = [NoPr EXCEPT !.pc = "call", !.token = t, !.head = h]

PrUnchanged ==
    UNCHANGED <<policy, sessVars, bugVars, gitVars, prVars, dirVars, emitVars,
                pc, attempt, attempts, testRuns, lastRun, finalTest, score,
                errorEvents, logs, threw, elapsedMs, scoreIn, unitVars>>

\* entry of createPullRequest: getBotToken (throws when the token is not
\* set) and getDefaultBranch, both outside the try block
PrCall ==
    /\ pr.pc = "call"
    /\ pr' = IF pr.token
             THEN [pr EXCEPT !.pc = "post", !.try = 1]
             ELSE [pr EXCEPT !.pc = "done", !.result = "threw"]
    /\ PrUnchanged

\* a failed try that is always tried again
PrFailedAlwaysRetries(p) ==
    [p EXCEPT !.try = p.try + 1, !.waits = p.waits + 1]

\* a try that failed: retried after 3 s while tries are left (retrying
\* variant), else the error is returned as success = false
PrFailed(p) ==
    IF Retrying /\ p.try < maxRetries
    THEN [p EXCEPT !.try = p.try + 1, !.waits = p.waits + 1]
    ELSE [p EXCEPT !.pc = "done", !.result = "failure"]

\* a lookup whose exception reaches the caller's error handling
LookupResultPropagates(p, r) ==
    IF r = "found"
    THEN [p EXCEPT !.pc = "done", !.result = "success", !.prUrl = "existing",
                   !.prNumber = TRUE]
    ELSE IF r = "throws" THEN PrFailed(p)
    ELSE [p EXCEPT !.pc = "done", !.result = "success", !.prUrl = "pulls"]

\* return value once the open-PR lookup ended with r: the listed PR, or the
\* URL of the repository's pull-request list
LookupResult(p, r) ==
    IF r = "found"
    THEN [p EXCEPT !.pc = "done", !.result = "success", !.prUrl = "existing",
                   !.prNumber = TRUE]
    ELSE [p EXCEPT !.pc = "done", !.result = "success", !.prUrl = "pulls"]

\* one POST and the handling of its response
PrPost ==
    /\ pr.pc = "post"
    /\ \E r \in {"created", "exists422"} \cup PrFailures :
        LET p == [pr EXCEPT !.resps = Append(pr.resps, r)]
        IN  pr' = CASE r = "created" ->
                        [p EXCEPT !.pc = "done", !.result = "success",
                                  !.prUrl = "created", !.prNumber = TRUE]
                    [] r = "exists422" ->
                        IF Retrying THEN [p EXCEPT !.pc = "lookup"]
                        ELSE [p EXCEPT !.pc = "done", !.result = "success",
                                       !.prUrl = "pulls"]
                    [] OTHER -> PrFailed(p)
    /\ PrUnchanged

\* retrying variant: GET of the open PRs with this head, inside its own try
PrLookup ==
    /\ pr.pc = "lookup"
    \* a PR is listed, none is, the response is not ok, or the request throws
    /\ \E r \in {"found", "empty", "notOk", "throws"} :
          pr' = LookupResult([pr EXCEPT !.lookup = r], r)
    /\ PrUnchanged

NextPR ==
    \/ PrCall
    \/ PrPost
    \/ PrLookup

SpecPR == InitPR /\ [][NextPR]_vars

\* ---------------------------------------------------------- commitChanges
\* Strings are sequences of characters; a word of several letters stands
\* for that run of letters, none of them special to the shell.
COMMIT_PREFIX == <<"[AI-AGENT]">>

\* the characters sh treats specially between double quotes
ShellSpecial == {"\"", "$", "\\"}

Messages == SeqsUpTo({"a"} \cup ShellSpecial, MaxMsg)

RECURSIVE EscapeQuotes(_)
\* fullMessage.replace(/"/g, '\\"')
EscapeQuotes(m) ==
    IF m = <<>> THEN <<>>
    ELSE (IF Head(m) = "\"" THEN <<"\\", "\"">> ELSE <<Head(m)>>)
         \o EscapeQuotes(Tail(m))

RECURSIVE ShellWord(_)
\* the argument sh hands to git for the characters w written between double
\* quotes: backslash escapes a special character, $name is replaced by the
\* parameter's value, an unescaped quote or a trailing backslash leaves the
\* command line malformed
ShellWord(w) ==
    IF w = <<>> THEN <<>>
    ELSE IF Head(w) = "\\"
    THEN IF Len(w) = 1 THEN <<"<malformed>">>
         ELSE IF w[2] \in ShellSpecial
         THEN <<w[2]>> \o ShellWord(Tail(Tail(w)))
         ELSE <<"\\">> \o ShellWord(Tail(w))
    ELSE IF Head(w) = "\"" THEN <<"<malformed>">>
    \* "a" is a character a parameter name can begin with
    ELSE IF Head(w) = "$" /\ Len(w) > 1 /\ w[2] = "a"
    THEN <<"<value>">> \o ShellWord(Tail(Tail(w)))
    ELSE <<Head(w)>> \o ShellWord(Tail(w))

Malformed(w) == \E i \in 1..Len(w) : w[i] = "<malformed>"

\* the git commands of commitChanges, in the order they run
GitCommands == {"config", "add", "diff", "commit", "rev-parse"}

\* a staged-changes check that never sees a change
diffCachedQuietAlwaysSame(index, head, fails) == "same"

\* git diff --cached --quiet: exit 0 without staged changes, 1 with staged
\* changes, another status when git itself fails
diffCachedQuiet(index, head, fails) ==
    IF fails THEN "error" ELSE IF index = head THEN "same" ELSE "differs"

\* commitChanges(repoDir, message) on a working tree tree over a HEAD head;
\* fail is the git command that fails for a reason of its own, "none" when
\* git works; git commit also fails with nothing staged or on a malformed
\* command line
commitChanges(tree, head, message, fail) ==
    LET fullMessage == COMMIT_PREFIX \o <<" ">> \o message
        word == ShellWord(EscapeQuotes(fullMessage))
        changes == diffCachedQuiet(tree, head, fail = "diff")
        made == fail # "commit" /\ tree # head /\ ~Malformed(word)
    IN  IF fail \in {"config", "add"}
        THEN [result |-> "throw", committed |-> FALSE, message |-> <<>>]
        ELSE IF changes = "same"
        THEN [result |-> "null", committed |-> FALSE, message |-> <<>>]
        ELSE IF ~made
        THEN [result |-> "throw", committed |-> FALSE, message |-> <<>>]
        ELSE [result |-> IF fail = "rev-parse" THEN "throw" ELSE "sha",
              committed |-> TRUE, message |-> word]

\* `Fix ${fixResult.bugsFixed} bug(s) - attempt ${attempt}/${MAX_ATTEMPTS}`
HealingMessage(n, k) ==
    <<"Fix", " ", ToString(n), " ", "bug(s)", " ", "-", " ", "attempt", " ",
      ToString(k), "/", ToString(MAX_ATTEMPTS)>>

InitGit ==
    /\ policy \in Policies
    /\ OrchInit("idle")
    /\ scoreIn = NoScoreIn
    /\ pr = NoPr
    /\ branch = NoBranch
    /\ fork = NoFork
    /\ url = NoUrl
    /\ sbx = NoSbx
    /\ fx = NoFx
    /\ store = NoStore
    /\ run = NoRun
    /\ remote = NoRemote
    /\ \E c \in 0..MaxContent : git = [NoGit EXCEPT !.pc = "open", !.tree = c,
                                               !.head = c]

GitUnchanged ==
    UNCHANGED <<orchVars, scoreIn, pr, branch, fork, url, sbx, fx,
                store, run, remote>>

\* a file of the working tree is written
GitEdit ==
    /\ git.pc = "open"
    /\ \E c \in (0..MaxContent) \ {git.tree} :
          git' = [git EXCEPT !.tree = c, !.edited = TRUE]
    /\ GitUnchanged

\* a call of commitChanges(repoDir, message) begins; what is kept of the
\* call before it is its result and whether a file was written since
Calling(message, loop, k) ==
    [NoGit EXCEPT !.pc = "calling", !.tree = git.tree, !.head = git.head,
                  !.count = git.count, !.calls = git.calls,
                  !.edited = git.edited, !.result = git.result,
                  !.msg = message, !.byLoop = loop, !.attempt = k]

\* some caller calls commitChanges with a message of its own
GitCall ==
    /\ git.pc = "open"
    /\ git.calls < MaxCalls
    /\ \E message \in Messages : git' = Calling(message, FALSE, 0)
    /\ GitUnchanged

\* runHealingLoop forms commitMessage and calls commitChanges
LoopCall ==
    /\ git.pc = "open"
    /\ git.calls < MaxCalls
    /\ \E n \in 0..MaxBugs, k \in 1..MAX_ATTEMPTS :
          git' = Calling(HealingMessage(n, k), TRUE, k)
    /\ GitUnchanged

\* an Attempt record that always carries a commit message
LoopRecordAlwaysMessage(k, sha, message) ==
    [AttemptRecord(k, "failed", sha) EXCEPT
        !.commitMessage = <<"[AI-AGENT]", " ">> \o message]

\* the Attempt record of an attempt that went through the commit step:
\* commitSha: commitSha || undefined,
\* commitMessage: commitSha ? `[AI-AGENT] ${commitMessage}` : undefined
LoopRecord(k, sha, message) ==
    [AttemptRecord(k, "failed", sha) EXCEPT
        !.commitMessage = IF sha THEN <<"[AI-AGENT]", " ">> \o message
                          ELSE <<>>]

\* commitChanges runs and returns or throws; runHealingLoop then builds its
\* Attempt record from the value returned
GitCommit ==
    /\ git.pc = "calling"
    /\ \E fail \in GitCommands \cup {"none"} :
        LET r == commitChanges(git.tree, git.head, git.msg, fail)
        IN  git' = [git EXCEPT
                !.pc = "open",
                !.head = IF r.committed THEN git.tree ELSE @,
                !.count = IF r.committed THEN @ + 1 ELSE @,
                !.calls = @ + 1,
                !.edited = FALSE,
                !.editedBefore = git.edited,
                !.wasClean = (git.tree = git.head),
                !.before = git.count,
                !.prev = git.result,
                !.result = r.result,
                !.gitOk = (fail = "none"),
                !.committed = r.committed,
                !.message = r.message,
                !.rec = IF git.byLoop /\ r.result # "throw"
                        THEN <<LoopRecord(git.attempt, r.result = "sha",
                                          git.msg)>>
                        ELSE <<>>]
    /\ GitUnchanged

SpecGit == InitGit /\ [][GitEdit \/ GitCall \/ LoopCall \/ GitCommit]_vars


\* --------------------------------------------------- getHealingBranchName
BRANCH_SUFFIX == <<"A", "I", "_", "F", "i", "x">>

LowerCase ==
    <<"a", "b", "c", "d", "e", "f", "g", "h", "i", "j", "k", "l", "m",
      "n", "o", "p", "q", "r", "s", "t", "u", "v", "w", "x", "y", "z">>

UpperCase ==
    <<"A", "B", "C", "D", "E", "F", "G", "H", "I", "J", "K", "L", "M",
      "N", "O", "P", "Q", "R", "S", "T", "U", "V", "W", "X", "Y", "Z">>

Digits == {"0", "1", "2", "3", "4", "5", "6", "7", "8", "9"}

\* the characters \s matches, of those drawn here
WhiteSpace == {" ", "\t"}

\* [A-Z0-9_]
BranchSafe == {UpperCase[i] : i \in 1..26} \cup Digits \cup {"_"}

\* String.prototype.toUpperCase on one character; the sharp s becomes SS
UpperOf(c) ==
    IF \E i \in 1..26 : LowerCase[i] = c
    THEN <<UpperCase[CHOOSE i \in 1..26 : LowerCase[i] = c]>>
    ELSE IF c = "ß" THEN <<"S", "S">>
    ELSE <<c>>

RECURSIVE toUpperCase(_)
toUpperCase(str) ==
    IF str = <<>> THEN <<>> ELSE UpperOf(Head(str)) \o toUpperCase(Tail(str))

RECURSIVE ReplaceEachSpace(_)
\* a replace(/\s/g, "_") in place of replace(/\s+/g, "_")
ReplaceEachSpace(str) ==
    IF str = <<>> THEN <<>>
    ELSE (IF Head(str) \in WhiteSpace THEN <<"_">> ELSE <<Head(str)>>)
         \o ReplaceEachSpace(Tail(str))

RECURSIVE ReplaceSpaceRuns(_)
\* replace(/\s+/g, "_")
ReplaceSpaceRuns(str) ==
    IF str = <<>> THEN <<>>
    ELSE IF Head(str) \in WhiteSpace
    THEN IF Len(str) > 1 /\ str[2] \in WhiteSpace
         THEN ReplaceSpaceRuns(Tail(str))
         ELSE <<"_">> \o ReplaceSpaceRuns(Tail(str))
    ELSE <<Head(str)>> \o ReplaceSpaceRuns(Tail(str))

\* replace(/[^A-Z0-9_]/g, "")
StripUnsafe(str) == SelectSeq(str, LAMBDA c : c \in BranchSafe)

\* getHealingBranchName(teamName, leaderName)
getHealingBranchName(teamName, leaderName) ==
    LET team == StripUnsafe(ReplaceSpaceRuns(toUpperCase(teamName)))
        leader == StripUnsafe(ReplaceSpaceRuns(toUpperCase(leaderName)))
    IN  team \o <<"_">> \o leader \o <<"_">> \o BRANCH_SUFFIX

TechChaos == <<"t", "e", "c", "h", " ", "c", "h", "a", "o", "s">>

AnuragMishra ==
    <<"A", "n", "u", "r", "a", "g", " ", "M", "i", "s", "h", "r", "a", "!">>

Names ==
    SeqsUpTo({"a", "7", "_", " ", "\t", "!", "ß"}, MaxName)
        \cup {TechChaos, AnuragMishra}

InitBranch ==
    /\ policy = "required"
    /\ OrchInit("idle")
    /\ scoreIn = NoScoreIn
    /\ pr = NoPr
    /\ git = NoGit
    /\ fork = NoFork
    /\ url = NoUrl
    /\ sbx = NoSbx
    /\ fx = NoFx
    /\ store = NoStore
    /\ run = NoRun
    /\ remote = NoRemote
    /\ \E t \in Names, l \in Names :
          branch = [NoBranch EXCEPT !.pc = "call", !.team = t, !.leader = l]

BranchCall ==
    /\ branch.pc = "call"
    /\ branch' = [branch EXCEPT
                     !.pc = "done",
                     !.out = getHealingBranchName(branch.team, branch.leader)]
    /\ UNCHANGED <<orchVars, scoreIn, pr, git, fork, url, sbx, fx,
                   store, run, remote>>

SpecBranch == InitBranch /\ [][BranchCall]_vars

\* ---------------------------------------------------------------- forkRepo
\* response.ok
ResponseOk(code) == code >= 200 /\ code <= 299

\* a test that takes every response for a success
ForkAcceptedAlways(code) == TRUE

\* the negation of `!response.ok && response.status !== 202`
ForkAccepted(code) == ResponseOk(code) \/ code = 202

\* fork attempts made by one call: two in the retrying repo manager, one in
\* the other
ForkAttempts == IF Retrying THEN maxForkAttempts ELSE 1

\* err.message of what one attempt throws, <<>> when it throws nothing
ForkError(code, body) ==
    IF code = 0 THEN <<"fetch failed">>
    ELSE IF ~ForkAccepted(code)
    THEN <<"Fork failed (", ToString(code), "): ",
           IF body = "message" THEN "message" ELSE "">>
         \o (IF code = 403
             THEN <<". GitHub token may lack 'public_repo' or 'repo' scope.">>
             ELSE <<>>)
    ELSE IF body = "fork" THEN <<>>
    ELSE IF body = "unparsable" THEN <<"Unexpected end of JSON input">>
    ELSE IF body = "null" THEN <<"Cannot read properties of null">>
    ELSE <<>>

\* forkData.owner?.login || forkData.full_name?.split("/")[0]
ForkOwnerOf(body) == IF body = "fork" THEN "bot" ELSE "undefined"

InitFork ==
    /\ policy \in Policies
    /\ OrchInit("idle")
    /\ scoreIn = NoScoreIn
    /\ pr = NoPr
    /\ git = NoGit
    /\ branch = NoBranch
    /\ url = NoUrl
    /\ sbx = NoSbx
    /\ fx = NoFx
    /\ store = NoStore
    /\ run = NoRun
    /\ remote = NoRemote
    /\ \E t \in BOOLEAN : fork = [NoFork EXCEPT !.pc = "call", !.token = t]

ForkUnchanged ==
    UNCHANGED <<orchVars, scoreIn, pr, git, branch, url, sbx, fx,
                store, run, remote>>

\* entry of forkRepo: getBotToken, outside the try block
ForkCall ==
    /\ fork.pc = "call"
    /\ fork' = IF fork.token
               THEN [fork EXCEPT !.pc = "post", !.try = 1]
               ELSE [fork EXCEPT !.pc = "done", !.result = "threw"]
    /\ ForkUnchanged

\* one attempt: the POST, the reading of its body, waitForFork (which polls
\* until the fork answers or its time is up, and never throws), and the catch
ForkPost ==
    /\ fork.pc = "post"
    \* st: HTTP status of POST /repos/{owner}/{repo}/forks; 0 is a rejected
    \* fetch.  body: what response.json() meets: an object naming the fork,
    \* the value null, a body that does not parse, an error object with a
    \* message, one without.
    /\ \E st \in {0, 200, 201, 202, 204, 403, 404, 500},
          body \in {"fork", "null", "unparsable", "message", "empty"},
          ready \in BOOLEAN :
        LET err == ForkError(st, body)
            f == [fork EXCEPT !.status = st, !.body = body]
        IN  /\ st = 0 => body = "empty"
            /\ st = 204 => body = "unparsable"
            /\ fork' =
                 IF err = <<>>
                 THEN [f EXCEPT !.pc = "done", !.result = "returned",
                                !.success = TRUE, !.ready = ready,
                                !.forkOwner = ForkOwnerOf(body)]
                 ELSE IF fork.try < ForkAttempts
                 THEN [f EXCEPT !.try = @ + 1, !.waits = @ + 1]
                 ELSE [f EXCEPT !.pc = "done", !.result = "returned",
                                !.success = FALSE, !.error = err]
    /\ ForkUnchanged

NextFork ==
    \/ ForkCall
    \/ ForkPost

SpecFork == InitFork /\ [][NextFork]_vars

\* the retrying forkRepo and the retrying createPullRequest, one call of each
InitRetry ==
    /\ policy = "required"
    /\ OrchInit("idle")
    /\ scoreIn = NoScoreIn
    /\ git = NoGit
    /\ branch = NoBranch
    /\ url = NoUrl
    /\ sbx = NoSbx
    /\ fx = NoFx
    /\ store = NoStore
    /\ run = NoRun
    /\ remote = NoRemote
    /\ \E t \in BOOLEAN, h \in {"fork", "original"} :
          pr = [NoPr EXCEPT !.pc = "call", !.token = t, !.head = h]
    /\ \E t \in BOOLEAN : fork = [NoFork EXCEPT !.pc = "call", !.token = t]

SpecRetry == InitRetry /\ [][NextPR \/ NextFork]_vars

\* ------------------------------------------------ session-store helpers
\* updateSessionStatus, updateSessionField and finalizeSession share one
\* shape: try { getAdminDb(); if (!db) return; await ...update(...) }
\* catch { console.warn }.  The outcome of a call is what the store does with
\* it: the update resolves ("ok"), getAdminDb returns no database ("noDb"),
\* getAdminDb throws ("dbThrows"), the update rejects ("rejected").

\* a helper without its try/catch
StoreHelperUnguarded(outcome) ==
    [written |-> outcome = "ok", warned |-> FALSE,
     threw |-> outcome \in {"dbThrows", "rejected"}]

\* one helper call under the given outcome: whether the document was
\* updated, whether console.warn ran, whether an exception left the helper
StoreHelper(outcome) ==
    [written |-> outcome = "ok",
     warned |-> outcome \in {"dbThrows", "rejected"},
     threw |-> FALSE]

\* the caller is about to issue the writes of script, one after the other; a
\* write is the helper called and the status it carries ("" for
\* updateSessionField, which carries none)
InitStore ==
    /\ policy \in Policies
    /\ OrchInit("idle")
    /\ scoreIn = NoScoreIn
    /\ pr = NoPr
    /\ git = NoGit
    /\ branch = NoBranch
    /\ fork = NoFork
    /\ url = NoUrl
    /\ sbx = NoSbx
    /\ fx = NoFx
    /\ run = NoRun
    /\ remote = NoRemote
    /\ \E sc \in SeqsUpTo(
                    {[fn |-> "updateSessionStatus", status |-> "scanning"],
                     [fn |-> "updateSessionStatus", status |-> "failed"],
                     [fn |-> "updateSessionField", status |-> ""],
                     [fn |-> "finalizeSession", status |-> "completed"]},
                    MaxCalls) \ {<<>>} :
          store = [NoStore EXCEPT !.pc = "run", !.script = sc]

\* `await helper(...)`: the next write of the script under some outcome; an
\* exception leaving the helper would end the caller's sequence of steps
StoreWrite ==
    /\ store.pc = "run"
    /\ \E outcome \in {"ok", "noDb", "dbThrows", "rejected"} :
        LET w == store.script[Len(store.made) + 1]
            h == StoreHelper(outcome)
            s == [store EXCEPT !.outcomes = Append(@, outcome),
                               !.warned = IF h.warned THEN @ + 1 ELSE @,
                               !.doc = IF h.written /\ w.status # ""
                                       THEN w.status ELSE @]
        IN  store' =
              IF h.threw
              THEN [s EXCEPT !.threw = TRUE, !.pc = "done"]
              ELSE [s EXCEPT !.made = Append(@, w),
                             !.pc = IF Len(store.made) + 1 = Len(store.script)
                                    THEN "done" ELSE "run"]
    /\ UNCHANGED <<orchVars, scoreIn, pr, git, branch, fork, url, sbx, fx,
                   run, remote>>

SpecStore == InitStore /\ [][StoreWrite]_vars

\* ------------------------------------------------------------------ runTests
\* a missing status for 0
ExitCodeOfStatus(st) == IF st = <<>> THEN 0 ELSE st[1]

\* err.status || 1, where the status is <<n>> for the number n and <<>> for
\* null (the command was killed) or undefined (it was never launched)
ExitCodeOf(st) == IF st = <<>> \/ st[1] = 0 THEN 1 ELSE st[1]

RECURSIVE parseErrors(_, _)
\* parseErrors(output, repoDir): the lines that parseErrorLine takes for an
\* error, each key once, in order of appearance; "noise" is a line that
\* matches no pattern
parseErrors(lines, seen) ==
    IF lines = <<>> THEN <<>>
    ELSE IF Head(lines) = "noise" \/ Head(lines) \in seen
    THEN parseErrors(Tail(lines), seen)
    ELSE <<Head(lines)>> \o parseErrors(Tail(lines), seen \cup {Head(lines)})

InitRun ==
    /\ policy \in Policies
    /\ OrchInit("idle")
    /\ scoreIn = NoScoreIn
    /\ pr = NoPr
    /\ git = NoGit
    /\ branch = NoBranch
    /\ fork = NoFork
    /\ url = NoUrl
    /\ sbx = NoSbx
    /\ fx = NoFx
    /\ store = NoStore
    /\ remote = NoRemote
    /\ \E skip \in BOOLEAN :
          run = [NoRun EXCEPT !.pc = "call", !.skipInstall = skip]

\* runTests(repoDir, skipInstall): detectTestCommand (never throws),
\* installDependencies unless skipped (its failures are only warned about),
\* then execSync of the test command with a 2 min timeout.  execSync returns
\* the output when the command exits 0 and throws otherwise: with the exit
\* status ("exit1", "exit2"), with status null when the timeout kills the
\* command, with no status when the shell cannot be launched.
runTests ==
    /\ run.pc = "call"
    /\ \E inst \in {"skipped", "ok", "failed"},
          exec \in {"exit0", "exit1", "exit2", "timeout", "launchError"},
          lines \in SeqsUpTo({"noise", "e1", "e2"}, MaxErr) :
        LET st == CASE exec = "exit1" -> <<1>>
                    [] exec = "exit2" -> <<2>>
                    [] OTHER -> <<>>
            r == [run EXCEPT !.pc = "done", !.install = inst, !.exec = exec,
                             !.lines = lines, !.returned = TRUE]
        IN  /\ (inst = "skipped") = run.skipInstall
            /\ exec = "launchError" => lines = <<>>
            /\ run' = IF exec = "exit0"
                      THEN [r EXCEPT !.passed = TRUE, !.exitCode = 0,
                                     !.errors = <<>>]
                      ELSE [r EXCEPT !.passed = FALSE,
                                     !.exitCode = ExitCodeOf(st),
                                     !.errors = parseErrors(lines, {})]
    /\ UNCHANGED <<orchVars, scoreIn, pr, git, branch, fork, url, sbx, fx,
                   store, remote>>

SpecRun == InitRun /\ [][runTests]_vars




\* ----------------------------------------------------------- parseGitHubUrl
\* A URL is a sequence of pieces: "/", ":" and "." are themselves, every other
\* piece is a run of characters written as one string.
\* scheme, host, a separator, the owner, and then nothing or a slash and more.
\* The hosts are github.com, another host, a host whose name ends in
\* github.com, and a path on another host that names github.com.
Urls ==
    {sc \o h \o <<sep, "o">> \o t :
        sc \in {<<"https://">>, <<"http://">>, <<"ssh://git@">>, <<"git@">>,
                <<>>},
        h \in {<<"github.com">>, <<"gitlab.com">>, <<"not", "github.com">>,
               <<"gitlab.com", "/", "github.com">>},
        sep \in {"/", ":"},
        t \in {<<>>} \cup
              {<<"/">> \o rest :
                  rest \in SeqsUpTo({"r", "next.js", ".", "git", "/"},
                                    MaxTail)}}

\* the piece holds a slash
HasSlash(piece) == piece \in {"/", "https://", "http://", "ssh://git@"}

\* the piece holds a dot
HasDot(piece) == piece \in {".", "github.com", "gitlab.com", "next.js"}

\* ([^/]+) at pieces a..b of u
NoSlashRun(u, a, b) == a <= b /\ \A i \in a..b : ~HasSlash(u[i])

\* ([^/.]+?) at pieces a..b of u
RepoRun1(u, a, b) ==
    a <= b /\ \A i \in a..b : ~HasSlash(u[i]) /\ ~HasDot(u[i])

\* the matches of a pattern that begin at piece i: github\.com\/ there, the
\* owner group up to piece j, a slash, the repository group up to piece k,
\* and what the pattern allows between k and the end
Matches1(u, i) ==
    {[owner |-> SubSeq(u, i + 2, j), repo |-> SubSeq(u, j + 2, k)] :
        <<j, k>> \in {jk \in (1..Len(u)) \X (1..Len(u)) :
            /\ u[i] = "github.com"
            /\ i + 1 <= Len(u) /\ u[i + 1] = "/"
            /\ NoSlashRun(u, i + 2, jk[1])
            /\ jk[1] + 1 <= Len(u) /\ u[jk[1] + 1] = "/"
            /\ RepoRun1(u, jk[1] + 2, jk[2])
            /\ \/ jk[2] = Len(u)
               \/ SubSeq(u, jk[2] + 1, Len(u)) = <<".", "git">>}}

Matches2(u, i) ==
    {[owner |-> SubSeq(u, i + 2, j), repo |-> SubSeq(u, j + 2, k)] :
        <<j, k>> \in {jk \in (1..Len(u)) \X (1..Len(u)) :
            /\ u[i] = "github.com"
            /\ i + 1 <= Len(u) /\ u[i + 1] = "/"
            /\ NoSlashRun(u, i + 2, jk[1])
            /\ jk[1] + 1 <= Len(u) /\ u[jk[1] + 1] = "/"
            /\ NoSlashRun(u, jk[1] + 2, jk[2])
            /\ \/ jk[2] = Len(u)
               \/ SubSeq(u, jk[2] + 1, Len(u)) = <<"/">>}}

\* url.match(pattern): the match that begins leftmost; the groups of a match
\* that begins at a given piece are determined by the pattern
FirstMatch(u, n) ==
    LET M(i) == IF n = 1 THEN Matches1(u, i) ELSE Matches2(u, i)
        at == {i \in 1..Len(u) : M(i) # {}}
    IN  IF at = {} THEN {}
        ELSE M(CHOOSE i \in at : \A k \in at : i <= k)

\* parseGitHubUrl(url)
parseGitHubUrl(u) ==
    LET m1 == FirstMatch(u, 1)
        m2 == FirstMatch(u, 2)
    IN  IF m1 # {}
        THEN LET m == CHOOSE m \in m1 : TRUE
             IN  [result |-> "ok", owner |-> m.owner, repo |-> m.repo]
        ELSE IF m2 # {}
        THEN LET m == CHOOSE m \in m2 : TRUE
             IN  [result |-> "ok", owner |-> m.owner, repo |-> m.repo]
        ELSE [result |-> "throw", owner |-> <<>>, repo |-> <<>>]

InitUrl ==
    /\ policy \in Policies
    /\ OrchInit("idle")
    /\ scoreIn = NoScoreIn
    /\ pr = NoPr
    /\ git = NoGit
    /\ branch = NoBranch
    /\ fork = NoFork
    /\ sbx = NoSbx
    /\ fx = NoFx
    /\ store = NoStore
    /\ run = NoRun
    /\ remote = NoRemote
    /\ \E u \in Urls : url = [NoUrl EXCEPT !.pc = "call", !.in = u]

UrlCall ==
    /\ url.pc = "call"
    /\ LET r == parseGitHubUrl(url.in)
       IN  url' = [url EXCEPT !.pc = "done", !.result = r.result,
                              !.owner = r.owner, !.repo = r.repo]
    /\ UNCHANGED <<orchVars, scoreIn, pr, git, branch, fork, sbx, fx,
                   store, run, remote>>

SpecUrl == InitUrl /\ [][UrlCall]_vars

\* ------------------------------------------------------- sandbox directories
\* A path is its sequence of segments.
SANDBOX_BASE == <<"tmp", "self-healing">>

\* path.join of absolute path a and relative path b: the segments of both,
\* with empty and "." segments dropped and ".." taking back one segment
RECURSIVE Normalize(_, _)
Normalize(done, rest) ==
    IF rest = <<>> THEN done
    ELSE IF Head(rest) \in {"", "."} THEN Normalize(done, Tail(rest))
    ELSE IF Head(rest) = ".."
    THEN Normalize(IF done = <<>> THEN <<>>
                   ELSE SubSeq(done, 1, Len(done) - 1), Tail(rest))
    ELSE Normalize(Append(done, Head(rest)), Tail(rest))

pathJoin(a, b) == Normalize(<<>>, a \o b)

\* a sandbox directory that leaves the session id out
getSandboxDirShared(sessionId) == SANDBOX_BASE

getSandboxDir(sessionId) == pathJoin(SANDBOX_BASE, sessionId)

\* the ids startHealing hands out: one path segment each
SessionIds == {<<"s1">>, <<"s2">>, <<"s3">>}

\* path a is path b or lies above it
IsPrefix(a, b) == Len(a) <= Len(b) /\ SubSeq(b, 1, Len(a)) = a

\* what rmSync(dir, {recursive: true, force: true}) takes away
Removed(fs, dir) == {e \in fs : IsPrefix(dir, e.dir)}

\* session k touches what another session put on disk
Harms(fs, dir, k) ==
    \E e \in fs : e.by # k /\ (IsPrefix(dir, e.dir) \/ IsPrefix(e.dir, dir))

InitSbx ==
    /\ policy \in Policies
    /\ OrchInit("idle")
    /\ scoreIn = NoScoreIn
    /\ pr = NoPr
    /\ git = NoGit
    /\ branch = NoBranch
    /\ fork = NoFork
    /\ url = NoUrl
    /\ fx = NoFx
    /\ store = NoStore
    /\ run = NoRun
    /\ remote = NoRemote
    /\ \E a \in SessionIds : \E b \in SessionIds \ {a} :
            sbx = [NoSbx EXCEPT !.pc = <<"start", "start">>,
                                !.ids = <<a, b>>]

SbxUnchanged ==
    UNCHANGED <<orchVars, scoreIn, pr, git, branch, fork, url, fx, store,
                run, remote>>

\* cloneRepo of session k: an existing directory is deleted first; git clone
\* fills the directory or fails
CloneRepo(k) ==
    /\ sbx.pc[k] = "start"
    /\ LET dir == getSandboxDir(sbx.ids[k])
           kept == sbx.fs \ Removed(sbx.fs, dir)
       IN  \E ok \in BOOLEAN :
              sbx' = [sbx EXCEPT
                  !.pc[k] = IF ok THEN "loop" ELSE "failed",
                  !.fs = IF ok THEN kept \cup {[dir |-> dir, by |-> k, n |-> 0]}
                         ELSE kept,
                  !.harmed = @ \/ Harms(sbx.fs, dir, k)]
    /\ SbxUnchanged

\* a step of session k that writes in its working tree (a fix, a commit)
SandboxWrite(k) ==
    /\ sbx.pc[k] = "loop"
    /\ LET dir == getSandboxDir(sbx.ids[k])
       IN  \E e \in sbx.fs :
              /\ e.dir = dir
              /\ e.n < MaxWrites
              /\ sbx' = [sbx EXCEPT
                     !.fs = (@ \ {e}) \cup {[e EXCEPT !.n = @ + 1]},
                     !.harmed = @ \/ Harms(sbx.fs, dir, k)]
    /\ SbxUnchanged

\* cleanupSandbox of session k, from the finally block
SessionCleanup(k) ==
    /\ sbx.pc[k] \in {"loop", "failed"}
    /\ LET dir == getSandboxDir(sbx.ids[k])
       IN  sbx' = [sbx EXCEPT
               !.pc[k] = "done",
               !.fs = @ \ Removed(@, dir),
               !.harmed = @ \/ Harms(sbx.fs, dir, k)]
    /\ SbxUnchanged

NextSbx ==
    \E k \in Sessions : CloneRepo(k) \/ SandboxWrite(k) \/ SessionCleanup(k)

SpecSbx == InitSbx /\ [][NextSbx]_vars

\* ------------------------------------------------- the bug list under fixes
\* The scan, synthesis and fix steps of runHealingLoop on the bug list alone:
\* fx.all is allBugs, fx.errors the parsed errors of the attempt's failed test
\* run, fx.toFix what the next fix step is handed, fx.handed and fx.applied
\* what the latest fix step was handed and the indices of its results with
\* applied = true.
InitFx ==
    /\ policy \in Policies
    /\ OrchInit("idle")
    /\ scoreIn = NoScoreIn
    /\ pr = NoPr
    /\ git = NoGit
    /\ branch = NoBranch
    /\ fork = NoFork
    /\ url = NoUrl
    /\ sbx = NoSbx
    /\ store = NoStore
    /\ run = NoRun
    /\ remote = NoRemote
    /\ fx = [NoFx EXCEPT !.pc = "scan", !.attempt = 1]

FxUnchanged ==
    UNCHANGED <<orchVars, scoreIn, pr, git, branch, fork, url, sbx, store,
                run, remote>>

\* a failed test run followed by scanForBugs and the loop over the scanner's
\* bugs; the fork-required loop goes on to the test errors when that leaves
\* nothing to fix
FxScan ==
    /\ fx.pc = "scan"
    /\ \E scan \in CanonSeqs(Len(fx.all), MaxScan) :
        LET f == IF policy = "required"
                 THEN FilterScan(scan, fx.all, <<>>)
                 ELSE TrackScan(scan, fx.all, <<>>)
        IN  fx' = [fx EXCEPT
                !.pc = IF policy = "required" /\ f.new = <<>>
                       THEN "synth" ELSE "fix",
                !.all = f.all, !.toFix = f.new, !.synth = FALSE,
                !.errors = <<>>, !.handed = <<>>, !.applied = {}]
    /\ FxUnchanged

\* fork-required, genuinelyNewBugs empty: the synthesis from the test errors
\* and the exit when nothing is left to fix
FxSynthesize ==
    /\ fx.pc = "synth"
    /\ \E errors \in CanonSeqs(Len(fx.all), MaxErr) :
        LET r == BugsToFixRequired(
                     [all |-> fx.all, new |-> <<>>, synth |-> FALSE], errors)
        IN  fx' = [fx EXCEPT
                !.pc = IF r.new = <<>> THEN "exit" ELSE "fix",
                !.all = r.all, !.toFix = r.new, !.synth = r.synth,
                !.errors = errors]
    /\ FxUnchanged

\* fixAllBugs and the marking of the applied fixes; then the next attempt
FxFix ==
    /\ fx.pc = "fix"
    /\ \E applied \in SUBSET (1..Len(fx.toFix)) :
        fx' = [fx EXCEPT
            !.pc = IF LoopContinues(fx.attempt + 1) THEN "scan" ELSE "done",
            !.attempt = @ + 1,
            !.all = MarkFixed(fx.all, fx.toFix, applied, fx.attempt),
            !.handed = fx.toFix,
            !.applied = applied,
            !.toFix = <<>>]
    /\ FxUnchanged

SpecFx == InitFx /\ [][FxScan \/ FxSynthesize \/ FxFix]_vars

\* ------------------------------------------------------------------ claims
LoopSteps == {"scan", "fix", "commit", "push"}

\* C1: in both variants, once the clone has succeeded, an exception that
\* leaves a step of the loop body (scan, fix, commit, and push where the loop
\* does not catch it) ends runHealingLoop with status failed carrying the
\* exception's message, and the sandbox directory no longer exists.
C1_ThrowFailsAndCleans ==
    threw \in LoopSteps =>
        /\ pc = "done"
        /\ cloned # "none"
        /\ status = "failed"
        /\ errorMsg = threw
        /\ ~sandbox

C1_Witness ==
    /\ threw = "commit"
    /\ attempt = 2
    /\ status = "failed"
    /\ errorMsg = "commit"
    /\ ~sandbox

C2_Bounded ==
    policy = "required" =>
        /\ pc \in {"test", "scan", "synth", "fix", "push"} => attempt <= 3
        /\ Len(attempts) <= 3
        /\ finalTest = "none" => testRuns <= 3
        /\ testRuns <= 3 + 1
        /\ pc = "done" => status \in Terminal

\* C2: every run of the fork-required orchestrator terminates, after at most
\* MAX_ATTEMPTS = 3 iterations of the loop and at most MAX_ATTEMPTS + 1 test
\* runs, and at return the status is completed, partial_success or failed.
C2_TerminatesBounded == []C2_Bounded /\ <>(pc = "done")

C2_Witness ==
    /\ policy = "required"
    /\ pc = "done"
    /\ Len(attempts) = 3
    /\ testRuns = 4
    /\ status = "partial_success"

C3_Outcome ==
    (policy = "required" /\ finalTest # "none") =>
        /\ pc = "done"
        /\ score.set
        /\ score.bugsFixed = CountFixed(allBugs)
        /\ score.totalBugs = Len(allBugs)
        /\ finalTest = "passed" => status = "completed" /\ prAttempts = 1
        /\ (finalTest = "failed" /\ CountFixed(allBugs) > 0) =>
               status = "partial_success" /\ prAttempts = 1
        /\ (finalTest = "failed" /\ CountFixed(allBugs) = 0) =>
               status = "failed" /\ prAttempts = 0

C3_OneFinalRun ==
    (policy = "required" /\ pc = "final" /\ pc' # "final") =>
        /\ testRuns' = testRuns + 1
        /\ finalTest' = lastRun'
        /\ pc' = "done"

\* C3: in the fork-required orchestrator exactly one final test run decides
\* the outcome after the loop: passed gives completed and a PR attempt;
\* failed with a bug marked fixed gives partial_success and a PR attempt;
\* failed with no bug marked fixed gives failed and no PR attempt; the score
\* counts the fixed and the tracked bugs (2 of 3 in the scenario).
C3_FinalVerification == []C3_Outcome /\ [][C3_OneFinalRun]_vars

C3_Witness ==
    /\ policy = "required"
    /\ pc = "done"
    /\ Len(attempts) = 3
    /\ Len(allBugs) = 3
    /\ \A i \in 1..3 : allBugs[i].fixed => allBugs[i].fixedAtAttempt <= 2
    /\ finalTest = "failed"
    /\ status = "partial_success"
    /\ score.bugsFixed = 2
    /\ score.totalBugs = 3
    /\ prAttempts = 1

\* the score as the formula of the specification gives it
Clamp(x, lo, hi) == IF x < lo THEN lo ELSE IF x > hi THEN hi ELSE x

Nearest(n, d) ==
    CHOOSE r \in 0..(n + 1) : 2 * d * r <= 2 * n + d /\ 2 * n + d < 2 * d * (r + 1)

FormulaBase(in) ==
    (IF Len(in.bugs) = 0 THEN 0
     ELSE Nearest(60 * CountFixed(in.bugs), Len(in.bugs)))
    + (IF in.testsPassed THEN 20 ELSE 0)
    + (IF in.attempts <= 2 THEN 10 ELSE IF in.attempts <= 3 THEN 5 ELSE 0)

FormulaSpeedBonus(in) == IF in.timeMs < 300 * 1000 THEN 10 ELSE 0

FormulaCommitPenalty(in) ==
    IF in.totalCommits - 20 > 0 THEN in.totalCommits - 20 ELSE 0

SameScore(sc, in) ==
    /\ sc.finalScore = Clamp(FormulaBase(in) + FormulaSpeedBonus(in)
                                - FormulaCommitPenalty(in), 0, 100)
    /\ sc.speedBonus = FormulaSpeedBonus(in)
    /\ sc.commitPenalty = FormulaCommitPenalty(in)

\* C4: calculateScore returns finalScore = clamp(base + speedBonus -
\* commitPenalty, 0, 100) with base = round(60 * bugsFixed / totalBugs) (0 for
\* no bugs) + 20 if testsPassed + 10 / 5 / 0 for attempts <= 2 / <= 3 / more,
\* speedBonus = 10 iff elapsed < 300 s, commitPenalty = max(0, commits - 20);
\* the speedBonus and commitPenalty fields equal these terms, and the two
\* orchestrator variants compute the same function.
C4_ScoreFormula ==
    (scoreIn.set /\ score.set) =>
        /\ SameScore(score, scoreIn)
        /\ calculateScoreRequired(scoreIn.bugs, scoreIn.testsPassed,
                                  scoreIn.attempts, scoreIn.totalCommits,
                                  scoreIn.timeMs)
           = calculateScoreFallback(scoreIn.bugs, scoreIn.testsPassed,
                                    scoreIn.attempts, scoreIn.totalCommits,
                                    scoreIn.timeMs)

C4_Witness ==
    /\ scoreIn.set
    /\ score.set
    /\ Len(scoreIn.bugs) = 3
    /\ CountFixed(scoreIn.bugs) = 2
    /\ scoreIn.testsPassed
    /\ scoreIn.attempts = 3
    /\ scoreIn.timeMs = 300 * 1000
    /\ scoreIn.totalCommits = 22
    /\ score.finalScore = 63

\* C5: finalScore lies within [0, 100] for every input, totalCommits = 1000
\* with totalBugs = 0 and all bonuses at once included.
C5_ScoreInRange ==
    (scoreIn.set /\ score.set) => (score.finalScore >= 0 /\ score.finalScore <= 100)

C5_Witness ==
    /\ scoreIn.set
    /\ score.set
    /\ scoreIn.totalCommits = 1000
    /\ scoreIn.bugs = <<>>
    /\ score.commitPenalty = 980
    /\ score.finalScore = 0

\* C6: with totalBugs, testsPassed, attempts, totalCommits and elapsed time
\* held constant, finalScore does not decrease when one more bug is marked
\* fixed.
C6_MonotoneInBugsFixed ==
    (scoreIn.set /\ score.set /\ scoreIn.prev >= 0) =>
        score.finalScore >= scoreIn.prev

C6_Witness ==
    /\ scoreIn.set
    /\ score.set
    /\ scoreIn.prev >= 0
    /\ CountFixed(scoreIn.bugs) = Len(scoreIn.bugs)
    /\ score.finalScore > scoreIn.prev

\* the first test run of the session passed, within 300 s, no commit penalty
FirstRunPassed ==
    /\ testRuns = 1
    /\ lastRun = "passed"
    /\ elapsedMs < 300 * 1000
    /\ commits <= 20

FirstRunExit ==
    /\ pc = "done"
    /\ attempt = 1
    /\ status = "completed"
    /\ allBugs = <<>>
    /\ Len(attempts) = 1
    /\ attempts[1].attempt = 1
    /\ attempts[1].status = "passed"
    /\ score.set
    /\ score.testsPassed
    /\ score.attempts = 1

\* C7 (as amended): when the first test run passes, within 300 s and with no
\* commit penalty, the loop exits after attempt 1 with status completed, an
\* empty bug list, one Attempt record (passed), and a score with testsPassed,
\* attempts = 1 and finalScore = 40 (0 for bugs, 20 tests, 10 attempts,
\* 10 speed).
C7_FirstRunPasses ==
    FirstRunPassed => (FirstRunExit /\ score.finalScore = 40)

\* C7 as stated: the same with finalScore >= 80
C7_AsStated ==
    FirstRunPassed => (FirstRunExit /\ score.finalScore >= 80)

C7_Witness ==
    /\ FirstRunPassed
    /\ FirstRunExit
    /\ score.speedBonus = 10
    /\ score.commitPenalty = 0

\* C8: allBugs never holds two entries with the same (filePath, line),
\* whatever scans (duplicates inside one scan included) and synthesized
\* test-error bugs (several errors on one line included) were processed.
C8_NoDuplicateLocation ==
    \A i, j \in 1..Len(allBugs) :
        allBugs[i].loc = allBugs[j].loc => i = j

C8_Witness ==
    /\ "synth" \in logs
    /\ pc = "fix"
    /\ Len(bugsToFix) = 2
    /\ bugsToFix[1].loc = bugsToFix[2].loc
    /\ Len(allBugs) >= 2

\* C9: in the fallback orchestrator a failed fork does not fail the session:
\* the failure is logged, the original repository is cloned, the loop runs on
\* it, a PR has the original owner as head owner, and the session does not
\* end in the fork step.
C9_ForkFallback ==
    (policy = "fallback" /\ "forkFailed" \in logs) =>
        /\ ~useFork
        /\ pc # "fork"
        /\ errorMsg # "fork"
        /\ cloned \in {"none", "original"}
        /\ prHead \in {"none", "original"}
        /\ pc = "done" => status \in Terminal
        /\ pc = "done" => (threw # "none" \/ (cloned = "original" /\ testRuns >= 1))

C9_Witness ==
    /\ policy = "fallback"
    /\ "forkFailed" \in logs
    /\ pc = "done"
    /\ cloned = "original"
    /\ pushed
    /\ status = "completed"
    /\ prHead = "original"

\* C10: when the create-PR request returns 422 "pull request already
\* exists", createPullRequest returns success = true with a prUrl (the
\* existing PR's URL and number when the lookup finds it); it sends no
\* further create request, and it neither returns success = false nor throws,
\* whatever the lookup does.
C10_AlreadyExists ==
    \A i \in 1..Len(pr.resps) :
        pr.resps[i] = "exists422" =>
            /\ i = Len(pr.resps)
            /\ pr.pc \in {"lookup", "done"}
            /\ pr.result \in {"none", "success"}
            /\ pr.pc = "done" =>
                  /\ pr.result = "success"
                  /\ pr.prUrl \in {"existing", "pulls"}
                  /\ pr.lookup = "found" =>
                        (pr.prUrl = "existing" /\ pr.prNumber)

C10_Witness ==
    /\ pr.pc = "done"
    /\ Len(pr.resps) = 2
    /\ pr.resps[2] = "exists422"
    /\ pr.lookup = "throws"
    /\ pr.result = "success"
    /\ pr.prUrl = "pulls"

\* C11: commitChanges on a working tree without changes relative to HEAD
\* creates no commit and, git working, returns null; so a second call with no
\* file change since a call that returned gives null again; the number of
\* commits grows by exactly one per call that found changes and committed
\* them, and by nothing otherwise.
C11_CommitIdempotent ==
    (git.calls > 0 /\ git.pc = "open") =>
        /\ git.wasClean =>
               /\ git.count = git.before
               /\ git.result \in {"null", "throw"}
               /\ git.gitOk => git.result = "null"
        /\ (git.calls > 1 /\ ~git.editedBefore /\ git.prev # "throw"
               /\ git.gitOk) => git.result = "null"
        /\ (~git.wasClean /\ git.result # "throw") =>
               git.result = "sha" /\ git.count = git.before + 1
        /\ git.count = git.before + (IF git.committed THEN 1 ELSE 0)
        /\ git.result = "sha" => git.committed
        /\ git.result = "null" => ~git.committed

C11_Witness ==
    /\ git.pc = "open"
    /\ git.calls = 2
    /\ git.gitOk
    /\ git.prev = "sha"
    /\ ~git.editedBefore
    /\ git.result = "null"
    /\ git.count = 1

RECURSIVE BranchPart(_, _)
\* one pass over a name: a character that is not white space is upper-cased
\* and kept if it is then in [A-Z0-9_]; a run of white space gives one
\* underscore, at its first character
BranchPart(str, inRun) ==
    IF str = <<>> THEN <<>>
    ELSE IF Head(str) \in WhiteSpace
    THEN (IF inRun THEN <<>> ELSE <<"_">>) \o BranchPart(Tail(str), TRUE)
    ELSE SelectSeq(UpperOf(Head(str)), LAMBDA c : c \in BranchSafe)
         \o BranchPart(Tail(str), FALSE)

TechChaosBranch ==
    <<"T", "E", "C", "H", "_", "C", "H", "A", "O", "S", "_",
      "A", "N", "U", "R", "A", "G", "_", "M", "I", "S", "H", "R", "A", "_",
      "A", "I", "_", "F", "i", "x">>

\* C12: getHealingBranchName(team, leader) is <T>_<L>_AI_Fix, T and L being
\* the inputs upper-cased with each white-space run turned into one
\* underscore and every character outside [A-Z0-9_] removed; what precedes
\* _AI_Fix holds only A-Z, 0-9 and underscore; ("tech chaos",
\* "Anurag Mishra!") gives TECH_CHAOS_ANURAG_MISHRA_AI_Fix.
C12_BranchName ==
    branch.pc = "done" =>
        LET n == Len(branch.out) - Len(BRANCH_SUFFIX) - 1
        IN  /\ branch.out = BranchPart(branch.team, FALSE) \o <<"_">>
                            \o BranchPart(branch.leader, FALSE) \o <<"_">>
                            \o BRANCH_SUFFIX
            /\ n >= 1
            /\ \A i \in 1..n : branch.out[i] \in BranchSafe
            /\ SubSeq(branch.out, n + 1, Len(branch.out))
                   = <<"_">> \o BRANCH_SUFFIX
            /\ (branch.team = TechChaos /\ branch.leader = AnuragMishra) =>
                   branch.out = TechChaosBranch

C12_Witness ==
    /\ branch.pc = "done"
    /\ branch.team = TechChaos
    /\ branch.leader = AnuragMishra
    /\ branch.out = TechChaosBranch

C13_Returned ==
    /\ fork.result = "returned"
    /\ (fork.status = 0 \/ ~ResponseOk(fork.status)) => ~fork.success
    /\ ~fork.success => (Len(fork.error) > 0 /\ fork.error[1] # "")
    /\ (~fork.success /\ fork.status = 403) =>
           (fork.error[2] = "403" /\ Len(fork.error) = 5)

RepoPartOf(u) ==
    LET head == <<"https://", "github.com", "/", "o", "/">>
        t == SubSeq(u, Len(head) + 1, Len(u))
    IN  IF /\ Len(u) > Len(head)
           /\ SubSeq(u, 1, Len(head)) = head
           /\ \A i \in 1..Len(t) : ~HasSlash(t[i])
        THEN t
        ELSE <<>>

\* a repository part without its .git suffix
WithoutGitSuffix(t) ==
    IF Len(t) >= 3 /\ SubSeq(t, Len(t) - 1, Len(t)) = <<".", "git">>
    THEN SubSeq(t, 1, Len(t) - 2)
    ELSE t

\* C14: parseGitHubUrl returns owner and repository, without the .git
\* suffix, for a URL of the form https://github.com/<owner>/<repo>[.git], and
\* throws for every other URL (SSH URLs, other hosts, more path segments).
C14_AsStated ==
    url.pc = "done" =>
        IF RepoPartOf(url.in) # <<>>
        THEN /\ url.result = "ok"
             /\ url.owner = <<"o">>
             /\ url.repo = WithoutGitSuffix(RepoPartOf(url.in))
        ELSE url.result = "throw"

\* C14: the same URLs are parsed as the claim says when the repository name
\* holds no dot, and a URL that names github.com nowhere, or puts a colon
\* after it, or has more path segments, is rejected.
C14_Canonical ==
    url.pc = "done" =>
        /\ (/\ RepoPartOf(url.in) # <<>>
            /\ \A i \in 1..Len(WithoutGitSuffix(RepoPartOf(url.in))) :
                    ~HasDot(WithoutGitSuffix(RepoPartOf(url.in))[i]))
           => /\ url.result = "ok"
              /\ url.owner = <<"o">>
              /\ url.repo = WithoutGitSuffix(RepoPartOf(url.in))
        /\ (\A i \in 1..(Len(url.in) - 1) :
                ~(url.in[i] = "github.com" /\ url.in[i + 1] = "/"))
           => url.result = "throw"

\* a URL on another host was accepted, and a dotted repository kept .git
C14_Witness ==
    /\ url.pc = "done"
    /\ url.in = <<"https://", "github.com", "/", "o", "/", "next.js", ".",
                  "git">>
    /\ url.result = "ok"
    /\ url.repo = <<"next.js", ".", "git">>

C14_OtherHostWitness ==
    /\ url.pc = "done"
    /\ url.in = <<"https://", "not", "github.com", "/", "o", "/", "r">>
    /\ url.result = "ok"

C14_SshWitness ==
    /\ url.pc = "done"
    /\ url.in = <<"ssh://git@", "github.com", "/", "o", "/", "r", ".", "git">>
    /\ url.result = "ok"

\* C15: two running sessions with distinct ids have distinct sandbox
\* directories, every directory on disk holds what the session of that
\* directory put there, and no clone, write or cleanup of one session has
\* touched what the other session put on disk.
C15_SandboxIsolation ==
    sbx.pc[1] # "idle" =>
        /\ getSandboxDir(sbx.ids[1]) # getSandboxDir(sbx.ids[2])
        /\ ~sbx.harmed
        /\ \A e \in sbx.fs : e.dir = getSandboxDir(sbx.ids[e.by])
        /\ \A k \in Sessions :
              sbx.pc[k] = "loop" =>
                  \E e \in sbx.fs : e.by = k /\ e.dir = getSandboxDir(sbx.ids[k])

\* one session has cleaned up while the other still works in its directory
C15_Witness ==
    /\ sbx.pc = <<"done", "loop">>
    /\ \E e \in sbx.fs : e.by = 2 /\ e.n = MaxWrites

\* C16: a commit made by a call of the healing loop has the message
\* "[AI-AGENT] " followed by the message the loop passed, and the Attempt
\* record built after the call carries a commitMessage exactly when it carries
\* a commitSha, that commitMessage being the message of the commit.
C16_CommitMessage ==
    (git.pc = "open" /\ git.byLoop) =>
        /\ git.committed =>
              git.message = COMMIT_PREFIX \o <<" ">> \o git.msg
        /\ \A i \in 1..Len(git.rec) :
              /\ git.rec[i].commitSha <=> git.rec[i].commitMessage # <<>>
              /\ git.rec[i].commitSha =>
                    /\ git.committed
                    /\ git.rec[i].commitMessage = git.message
                    /\ SubSeq(git.rec[i].commitMessage, 1, 2)
                            = <<"[AI-AGENT]", " ">>

\* the loop has committed and recorded it, and has recorded an attempt
\* without a commit
C16_Witness ==
    /\ git.pc = "open" /\ git.byLoop /\ git.committed
    /\ git.rec # <<>> /\ git.rec[1].commitSha
    /\ git.rec[1].commitMessage = <<"[AI-AGENT]", " ">> \o HealingMessage(2, 1)

C16_NoCommitWitness ==
    /\ git.pc = "open" /\ git.byLoop /\ ~git.committed
    /\ git.rec # <<>> /\ ~git.rec[1].commitSha

\* the step in which a timeout check finds the budget exceeded, and every
\* step after it
C17_AfterTimeout ==
    (policy = "required" /\ "timeout" \in logs') =>
        /\ "timeout" \notin logs => pc' = "final" /\ testRuns' = testRuns
        /\ pc' \in {"final", "done"}
        /\ allBugs' = allBugs
        /\ commits' = commits
        /\ pushed' = pushed
        /\ attempts' = attempts
        /\ attempt' = attempt
        /\ testRuns' # testRuns =>
              pc = "final" /\ pc' = "done" /\ testRuns' = testRuns + 1
        /\ errorEvents' = errorEvents
        /\ errorMsg' = errorMsg
        /\ threw' = threw

C17_Outcome ==
    (policy = "required" /\ "timeout" \in logs) =>
        /\ errorEvents = 0 /\ errorMsg = "none" /\ threw = "none"
        /\ pc = "final" => finalTest = "none"
        /\ pc = "done" =>
              /\ finalTest # "none"
              /\ finalTest = lastRun
              /\ finalTest = "passed" => status = "completed"
              /\ (finalTest = "failed" /\ CountFixed(allBugs) > 0) =>
                     status = "partial_success"
              /\ (finalTest = "failed" /\ CountFixed(allBugs) = 0) =>
                     status = "failed"

\* C17: in the fork-required orchestrator, once a timeout check finds the
\* session budget exceeded, no scan, fix, commit or push step follows; the
\* next step is the final test run, the session ends with the status final
\* verification chooses, and the timeout raises no error event and no error
\* message.
C17_TimeoutToFinal ==
    /\ [][C17_AfterTimeout]_vars
    /\ []C17_Outcome
    /\ (policy = "required" /\ "timeout" \in logs) ~> (pc = "done")

\* a timeout before the push of the second attempt, a bug fixed but not
\* committed, and a failed final test run
C17_Witness ==
    /\ policy = "required"
    /\ "timeout" \in logs
    /\ pc = "done"
    /\ Len(attempts) = 1
    /\ attempt = 2
    /\ CountFixed(allBugs) > 0
    /\ status = "partial_success"
    /\ errorEvents = 0

C18_Step ==
    \A i \in 1..Len(allBugs) :
        allBugs[i].fixed =>
            /\ i <= Len(allBugs')
            /\ allBugs'[i].loc = allBugs[i].loc
            /\ allBugs'[i].fixed
            /\ allBugs'[i].fixedAtAttempt = allBugs[i].fixedAtAttempt

\* C18: a bug of allBugs that has fixed = true keeps fixed = true and its
\* fixedAtAttempt in every later step of the session, whatever later scans
\* and test errors report for its location.
C18_FixedStaysFixed == [][C18_Step]_vars

\* a later attempt is about to fix a bug reported at the location of a bug
\* that an earlier attempt fixed
C18_Witness ==
    /\ pc = "fix"
    /\ \E i \in 1..Len(allBugs), j \in 1..Len(bugsToFix) :
          /\ allBugs[i].fixed
          /\ allBugs[i].fixedAtAttempt < attempt
          /\ bugsToFix[j].loc = allBugs[i].loc

\* fork-required: the third attempt is about to fix bugs while a bug that the
\* first attempt fixed is in allBugs
C18_RequiredWitness ==
    /\ policy = "required"
    /\ pc = "fix"
    /\ attempt = 3
    /\ bugsToFix # <<>>
    /\ \E i \in 1..Len(allBugs) :
          allBugs[i].fixed /\ allBugs[i].fixedAtAttempt = 1

\* C19: on every path to a terminal state the emitter stays registered after
\* the terminal event and is removed only by the timer the finally block
\* sets; no other step removes it.
C19_RemovedOnlyByTimer ==
    (emitter # "removed" /\ emitter' = "removed") =>
        /\ pc = "done" /\ pc' = "done"
        /\ timer /\ ~timer'
        /\ status' = status

C19_AsStated == [][C19_RemovedOnlyByTimer]_vars

\* the paths through the finally block: the emitter is registered when the
\* session reaches its terminal state and the timer is pending
C19_FinallyPaths ==
    (pc = "done" /\ errorMsg # "parse") =>
        /\ timer => emitter = "registered"
        /\ ~timer => emitter = "removed"

\* the URL did not parse: the session is failed, the error event is out and
\* the emitter is gone in the same step, with no timer pending
C19_Witness ==
    /\ pc = "done"
    /\ status = "failed"
    /\ errorMsg = "parse"
    /\ errorEvents = 1
    /\ emitter = "removed"
    /\ ~timer

\* C20: a session finalized as completed had a test run that passed, and a
\* score with testsPassed = true is recorded only for such a session. A
\* passing test run ends the session, so a session had a passing test run
\* exactly when its latest test run passed.
C20_AsStated ==
    /\ (pc = "done" /\ status = "completed") => lastRun = "passed"
    /\ (score.set /\ score.testsPassed) => lastRun = "passed"

\* the fallback orchestrator completes only on a passing test run
C20_Fallback ==
    policy = "fallback" =>
        /\ (pc = "done" /\ status = "completed") => lastRun = "passed"
        /\ (score.set /\ score.testsPassed) => lastRun = "passed"

\* fork-required: the only test run failed, no error was parsed and the
\* scanner reported nothing; the session is completed with testsPassed = true
C20_Witness ==
    /\ policy = "required"
    /\ pc = "done"
    /\ status = "completed"
    /\ testRuns = 1
    /\ lastRun = "failed"
    /\ finalTest = "none"
    /\ allBugs = <<>>
    /\ score.set /\ score.testsPassed

\* the session was finalized completed by the exit taken when no bug is left
\* to fix after a failed test run
ImplicitSuccess ==
    /\ policy = "required"
    /\ pc = "done"
    /\ status = "completed"
    /\ lastRun = "failed"

\* C21: the fork-required orchestrator finalizes completed in an attempt
\* whose test run failed only when every bug of allBugs is marked fixed.
C21_AsStated ==
    ImplicitSuccess => \A i \in 1..Len(allBugs) : allBugs[i].fixed

\* the exit was taken in the second attempt while the bug tracked in the
\* first attempt is not fixed
C21_Witness ==
    /\ ImplicitSuccess
    /\ Len(attempts) = 2
    /\ Len(allBugs) = 1
    /\ ~allBugs[1].fixed
    /\ score.set /\ score.bugsFixed = 0 /\ score.testsPassed

\* C22: after the fix step of attempt k, for every fix result with applied =
\* true the bug that allBugs tracks at the location of that result's bug is
\* fixed with fixedAtAttempt = k, whether the bug was new, a report of a
\* tracked unfixed location, or synthesized from a test error.
C22_AsStated ==
    \A j \in fx.applied :
        \E i \in 1..Len(fx.all) :
            /\ fx.all[i].loc = fx.handed[j].loc
            /\ fx.all[i].fixed
            /\ fx.all[i].fixedAtAttempt = fx.attempt - 1

\* what holds: an applied fix of a bug that was pushed to allBugs in the same
\* attempt marks that bug
C22_PushedInSameAttempt ==
    \A j \in fx.applied :
        fx.handed[j].id # 0 =>
            /\ fx.all[fx.handed[j].id].loc = fx.handed[j].loc
            /\ fx.all[fx.handed[j].id].fixed
            /\ fx.all[fx.handed[j].id].fixedAtAttempt = fx.attempt - 1

\* fork-required: the second attempt synthesized a bug at the location
\* tracked in the first attempt, its fix was applied, and the tracked bug is
\* not fixed
C22_Witness ==
    /\ policy = "required"
    /\ fx.pc = "scan"
    /\ fx.attempt = 3
    /\ fx.synth
    /\ Len(fx.all) = 1 /\ ~fx.all[1].fixed
    /\ Len(fx.handed) = 1 /\ fx.handed[1].loc = fx.all[1].loc
    /\ fx.applied = {1}

\* the locations of a sequence of bugs
BugLocs(bugs) == {bugs[i].loc : i \in 1..Len(bugs)}

\* the locations of the parsed test errors that no fixed bug of allBugs has
UnresolvedErrorLocs ==
    {fx.errors[i] : i \in {n \in 1..Len(fx.errors) :
                              ~TrackedFixed(fx.all, fx.errors[n])}}

C23_ExitWitness ==
    /\ policy = "required"
    /\ fx.pc = "exit"
    /\ fx.errors # <<>>
    /\ \A i \in 1..Len(fx.all) : fx.all[i].fixed

\* C24: in the fork-required orchestrator no bug handed to the fix step has
\* the location of a bug of allBugs that is marked fixed, whether the scanner
\* reported it or it was synthesized from a test error.
C24_NoFixedLocation ==
    (policy = "required" /\ fx.pc = "fix") =>
        \A j \in 1..Len(fx.toFix) : ~TrackedFixed(fx.all, fx.toFix[j].loc)

\* a test error at the location of a fixed bug was left out and another one
\* became the bug handed to the fix step
C24_Witness ==
    /\ policy = "required"
    /\ fx.pc = "fix"
    /\ fx.synth
    /\ \E i \in 1..Len(fx.errors) : TrackedFixed(fx.all, fx.errors[i])
    /\ Len(fx.toFix) = 1

\* the scanner's bugs are handed to the fix step while allBugs holds a
\* fixed bug
C24_ScannerWitness ==
    /\ policy = "required"
    /\ fx.pc = "fix"
    /\ ~fx.synth
    /\ fx.toFix # <<>>
    /\ \E i \in 1..Len(fx.all) : fx.all[i].fixed

\* the step in which pushBranch fails for the first time in the session
C25_PushFails ==
    (policy = "required" /\ "pushFailed" \notin logs /\ "pushFailed" \in logs')
    =>  /\ pc = "push"
        /\ commits' = commits + 1
        /\ attempts' = Append(attempts, AttemptRecord(attempt, "failed", TRUE))
        /\ attempt' = attempt + 1
        /\ pc' = IF attempt + 1 <= MAX_ATTEMPTS_REQUIRED THEN "loop" ELSE "final"
        /\ status' = "pushing"
        /\ errorMsg' = errorMsg /\ errorEvents' = errorEvents
        /\ threw' = threw

C25_NotFailedByPush ==
    policy = "required" =>
        /\ threw # "push" /\ errorMsg # "push"
        /\ "pushFailed" \in logs =>
              \/ errorEvents = 0 /\ errorMsg = "none"
              \/ pc = "done" /\ status = "failed" /\ threw # "none"

\* C25: in the fork-required orchestrator a failed pushBranch in attempt k is
\* only logged: the Attempt record k is appended with status failed and the
\* commit SHA, the loop goes on with attempt k + 1 or final verification, and
\* the push failure never marks the session failed.
C25_PushFailureLogged == [][C25_PushFails]_vars /\ []C25_NotFailedByPush

\* every push of the session failed, three Attempt records with their commit
\* SHA were appended and final verification passed
C25_Witness ==
    /\ policy = "required"
    /\ pc = "done"
    /\ "pushFailed" \in logs
    /\ ~pushed
    /\ Len(attempts) = 3
    /\ \A i \in 1..3 : attempts[i].commitSha /\ attempts[i].status = "failed"
    /\ status = "completed"
    /\ errorEvents = 0

\* C26: in the fallback orchestrator a failed pushBranch does not end the
\* session as failed with the push error: the Attempt record of the attempt
\* is appended and the loop goes on.
C26_AsStated ==
    policy = "fallback" =>
        /\ threw # "push" /\ errorMsg # "push"
        /\ commits <= Len(attempts)

\* the first push failed: the session is failed with the push error, the
\* commit is made and no Attempt record was appended
C26_Witness ==
    /\ policy = "fallback"
    /\ pc = "done"
    /\ status = "failed"
    /\ errorMsg = "push"
    /\ threw = "push"
    /\ errorEvents = 1
    /\ commits = 1
    /\ attempts = <<>>
    /\ attempt = 1

\* the step that follows the fix step of an attempt, when nothing throws
C27_AfterFix ==
    (policy = "required" /\ pc = "push" /\ pc' # "push" /\ threw' = "none")
    =>  /\ logs' = logs \/ logs' = logs \cup {"pushFailed"}
        /\ Len(attempts') = Len(attempts) + 1
        /\ attempts'[Len(attempts')].attempt = attempt
        /\ attempts'[Len(attempts')].status = "failed"
        /\ attempts'[Len(attempts')].commitSha <=> commits' = commits + 1

\* C27: in the fork-required orchestrator no timeout check lies between the
\* fix step and the commit, so every attempt in which the fix step ran goes
\* on to commit and appends its Attempt record.
C27_AsStated == [][C27_AfterFix]_vars

\* the timeout check before the push cut the first attempt short after a
\* fix was applied: nothing was committed, no Attempt record was appended,
\* and final verification passed
C27_Witness ==
    /\ policy = "required"
    /\ pc = "done"
    /\ "timeout" \in logs
    /\ attempt = 1
    /\ attempts = <<>>
    /\ commits = 0
    /\ CountFixed(allBugs) > 0
    /\ status = "completed"

\* C28: when parseGitHubUrl rejects the URL the session goes to failed with
\* the parse error, one error event is emitted, and no fork, clone, sandbox,
\* test, commit, push or PR operation is performed for the session.
C28_ParseFailureStops ==
    errorMsg = "parse" =>
        /\ pc = "done"
        /\ status = "failed"
        /\ errorEvents = 1
        /\ threw = "none"
        /\ ~useFork /\ "forkFailed" \notin logs
        /\ cloned = "none" /\ ~repoDir /\ ~sandbox
        /\ attempt = 0 /\ attempts = <<>> /\ allBugs = <<>>
        /\ testRuns = 0 /\ lastRun = "none" /\ finalTest = "none"
        /\ commits = 0 /\ ~pushed
        /\ prAttempts = 0 /\ ~prUrl
        /\ ~score.set

C28_Witness ==
    /\ errorMsg = "parse"
    /\ pc = "done"
    /\ status = "failed"
    /\ errorEvents = 1
    /\ policy = "required"

C30_AsStated ==
    threw = "clone" =>
        /\ pc = "done"
        /\ status = "failed"
        /\ errorMsg = "clone"
        /\ ~sandbox

\* the failed part: status and error are as the claim says
C30_FailedWithCloneError ==
    threw = "clone" =>
        /\ pc = "done"
        /\ status = "failed"
        /\ errorMsg = "clone"
        /\ errorEvents = 1
        /\ ~repoDir
        /\ testRuns = 0 /\ commits = 0 /\ prAttempts = 0

\* the clone failed and left a directory; the session is over, the emitter
\* is removed and the directory is still there
C30_Witness ==
    /\ threw = "clone"
    /\ pc = "done"
    /\ status = "failed"
    /\ ~repoDir
    /\ sandbox
    /\ emitter = "removed"

\* ------------------------------------------------------------------- C31
\* create requests one createPullRequest call has issued
PrRequests == Len(pr.resps)

\* create requests one forkRepo call has issued
ForkRequests == IF fork.pc = "post" THEN fork.try - 1 ELSE fork.try

\* C31: one call of the retrying forkRepo and one call of the retrying
\* createPullRequest each issue at most 1 + 2 create requests (in fact at most
\* two: maxForkAttempts and maxRetries count the tries, not the retries), wait
\* once between two tries and never otherwise, and, once the last try has
\* failed, return a failure value
C31_BoundedRetries ==
    /\ PrRequests <= maxRetries
    /\ maxRetries <= 1 + 2
    /\ ForkRequests <= maxForkAttempts
    /\ maxForkAttempts <= 1 + 2
    /\ pr.try <= maxRetries
    /\ pr.try > 0 => pr.waits = pr.try - 1
    /\ fork.try > 0 => fork.waits = fork.try - 1
    /\ pr.pc = "post" => PrRequests = pr.try - 1
    /\ (pr.pc = "done" /\ pr.token
          /\ pr.resps[Len(pr.resps)] \in PrFailures)
           => /\ pr.result = "failure"
              /\ PrRequests = maxRetries
    /\ (fork.pc = "done" /\ fork.token
          /\ ForkError(fork.status, fork.body) # <<>>)
           => /\ fork.result = "returned"
              /\ ~fork.success
              /\ ForkRequests = maxForkAttempts

\* both calls have returned a failure after their last try failed
C31_Witness ==
    /\ pr.pc = "done"
    /\ pr.result = "failure"
    /\ PrRequests = maxRetries
    /\ pr.waits = 1
    /\ fork.pc = "done"
    /\ fork.result = "returned"
    /\ ~fork.success
    /\ fork.try = maxForkAttempts
    /\ fork.waits = 1

\* ------------------------------------------------------------------- C32
\* C32: whatever subset of the session-store writes fails (no database, a
\* throwing getAdminDb, a rejected update), no exception leaves a helper and
\* the caller issues exactly the writes it issues when every write succeeds,
\* in the same order; a failed write only leaves the document as it was
C32_StoreNeverAborts ==
    /\ ~store.threw
    /\ Len(store.outcomes) = Len(store.made)
    /\ store.made = SubSeq(store.script, 1, Len(store.made))
    /\ store.pc = "done" => store.made = store.script
    /\ (\A i \in 1..Len(store.outcomes) : store.outcomes[i] # "ok")
           => store.doc = "none"

\* two writes, the first lost to a throwing getAdminDb and the second to a
\* rejected update, and the caller has gone through its whole script
C32_Witness ==
    /\ store.pc = "done"
    /\ store.outcomes = <<"dbThrows", "rejected">>
    /\ store.made = store.script
    /\ store.script[2].fn = "finalizeSession"
    /\ store.warned = 2
    /\ store.doc = "none"

\* ------------------------------------------------------------------- C33
\* C33: runTests never throws; a non-zero exit, the test-command timeout and
\* a launch error each give passed = false with a non-zero exitCode; passed
\* = true exactly when the command exited 0, and then exitCode = 0 and
\* errors is empty
C33_RunTestsTotal ==
    /\ ~run.threw
    /\ run.pc = "done" =>
          /\ run.returned
          /\ run.passed = (run.exec = "exit0")
          /\ run.passed => (run.exitCode = 0 /\ run.errors = <<>>)
          /\ ~run.passed => run.exitCode > 0
          /\ run.exec = "exit2" => run.exitCode = 2

\* a test command killed by the timeout after printing two error lines, with
\* a failed dependency installation before it: a failed result, exit code 1
C33_Witness ==
    /\ run.pc = "done"
    /\ run.exec = "timeout"
    /\ run.install = "failed"
    /\ ~run.passed
    /\ run.exitCode = 1
    /\ Len(run.errors) = 2

\* a passing command whose output holds a line that looks like an error
C33_PassedWitness ==
    /\ run.pc = "done"
    /\ run.passed
    /\ run.lines = <<"e1">>
    /\ run.errors = <<>>

\* ------------------------------------------------------------------- C34
\* the attempts the session used: the index of the last attempt of the loop
\* in which runTests was called.  Every attempt that passes its first timeout
\* check runs the tests once, and final verification runs them once more.
AttemptsUsed == IF finalTest # "none" THEN testRuns - 1 ELSE testRuns

\* C34: the attempts field of the score computed at session end is the
\* number of attempts the session used, on every exit path
C34_AsStated == score.set => score.attempts = AttemptsUsed

\* the same, for the sessions that no timeout check has cut short
C34_WithoutTimeout ==
    (score.set /\ "timeout" \notin logs) => score.attempts = AttemptsUsed

\* a session cut short by the timeout in its first attempt, after one test
\* run, and scored with MAX_ATTEMPTS attempts
C34_Witness ==
    /\ policy = "required"
    /\ pc = "done"
    /\ "timeout" \in logs
    /\ score.set
    /\ AttemptsUsed = 1
    /\ score.attempts = MAX_ATTEMPTS_REQUIRED

\* ------------------------------------------------------------------- C35
\* the Attempt records carry strictly increasing attempt indices within
\* 1..MAX_ATTEMPTS; a passed record is the last one and is there only with
\* the session finalized completed
C35_Records ==
    /\ Len(attempts) <= MAX_ATTEMPTS
    /\ \A i \in 1..Len(attempts) :
          /\ attempts[i].attempt \in 1..MAX_ATTEMPTS
          /\ \A j \in 1..Len(attempts) :
                i < j => attempts[i].attempt < attempts[j].attempt
          /\ attempts[i].status \in {"passed", "failed"}
          /\ attempts[i].status = "passed" =>
                /\ i = Len(attempts)
                /\ status = "completed"
                /\ score.set
                /\ score.testsPassed

\* a step leaves the records as they are or appends one record
C35_AppendOnly ==
    \/ attempts' = attempts
    \/ /\ Len(attempts') = Len(attempts) + 1
       /\ SubSeq(attempts', 1, Len(attempts)) = attempts

\* C35: in every reachable state the Attempt records have strictly
\* increasing indices within 1..MAX_ATTEMPTS, no record is changed after it
\* was appended, and at most one record is passed, which is then the last
\* record of a session finalized completed
C35_AuditTrail == []C35_Records /\ [][C35_AppendOnly]_vars

\* two failed attempts, the second with a commit, and a third attempt whose
\* test run passed
C35_Witness ==
    /\ pc = "done"
    /\ Len(attempts) = 3
    /\ attempts[1].status = "failed"
    /\ attempts[2].status = "failed"
    /\ attempts[2].commitSha
    /\ attempts[3].status = "passed"
    /\ attempts[3].attempt = 3
    /\ status = "completed"

C36_PushFailedWitness ==
    /\ policy = "required"
    /\ pc = "done"
    /\ prAttempts = 1
    /\ commits > 0
    /\ ~pushed
    /\ "pushFailed" \in logs
    /\ status = "partial_success"

\* ------------------------------------------------------------------- C37
\* a step taken with a terminal status leaves the status as it is, and a
\* step taken with the score written leaves the score as it is
C37_Step ==
    /\ status \in Terminal => status' = status
    /\ score.set => score' = score

\* the score is written together with a terminal status, by finalizeSession
C37_ScoreWithTerminal == score.set => status \in Terminal

\* C37: once the session status has been written as completed,
\* partial_success or failed, no later step of runHealingLoop changes it, and
\* the score is computed and written at most once per session
C37_TerminalIsFinal == [][C37_Step]_vars /\ []C37_ScoreWithTerminal

\* a session finalized partial_success whose pull request was attempted and
\* recorded, whose sandbox was cleaned up and whose emitter was removed
C37_Witness ==
    /\ pc = "done"
    /\ status = "partial_success"
    /\ score.set
    /\ prAttempts = 1
    /\ prUrl
    /\ ~sandbox
    /\ emitter = "removed"

\* ------------------------------------------------------------------- C38
\* the status changes the fork-required loop is said to make
StatusEdges ==
    {<<"cloning", "scanning">>, <<"scanning", "testing">>,
     <<"scanning", "fixing">>, <<"testing", "scanning">>,
     <<"fixing", "pushing">>, <<"pushing", "scanning">>}

\* a step that changes the status follows one of the edges or goes from a
\* non-terminal status to a terminal one
C38_Step ==
    status' # status =>
        \/ <<status, status'>> \in StatusEdges
        \/ status \notin Terminal /\ status' \in Terminal

\* C38: in the fork-required pipeline the persisted status starts at cloning
\* and changes only cloning -> scanning, scanning -> testing or fixing,
\* testing -> scanning, fixing -> pushing, pushing -> scanning, or from a
\* non-terminal status to a terminal one; cloning is never re-entered,
\* fixing is entered only from scanning and pushing only from fixing
C38_StatusTransitions ==
    /\ policy = "required" /\ status = "cloning"
    /\ [][C38_Step]_vars

\* the second iteration's test run has failed: the status has gone through
\* cloning, scanning, testing, scanning, fixing, pushing, scanning, testing
C38_Witness ==
    /\ policy = "required"
    /\ attempt = 2
    /\ pushed
    /\ status = "testing"

\* ------------------------------------------------- two sessions, one remote
\* the members of a sequence
Members(q) == {q[i] : i \in 1..Len(q)}

\* a push without --force: the remote keeps its branch unless the local
\* branch continues it
PlainPush(head, loc) == IF IsPrefix(head, loc) THEN loc ELSE head

\* git push -u origin <branch> --force: the remote branch becomes the local
\* branch whatever it held before
ForcePush(head, loc) == loc

\* the clone URL chosen by cloneRepo.  A fork is cloned with the token in
\* both variants; without a fork the first variant builds
\* https://<token>@github.com/<owner>/<repo>.git and the second variant uses
\* repoUrl itself, with ".git" added when it is missing.
cloneTarget(variant, forked) ==
    [target |-> IF forked THEN "fork" ELSE "original",
     token |-> forked \/ variant = "first"]

InitRemote ==
    /\ policy \in Policies
    /\ OrchInit("idle")
    /\ scoreIn = NoScoreIn
    /\ pr = NoPr
    /\ git = NoGit
    /\ branch = NoBranch
    /\ fork = NoFork
    /\ url = NoUrl
    /\ sbx = NoSbx
    /\ fx = NoFx
    /\ store = NoStore
    /\ run = NoRun
    /\ \E v \in {"first", "second"} :
          remote = [NoRemote EXCEPT !.pc = "run", !.variant = v]

\* cloneRepo(repoUrl, sessionId, forkOwner?, forkRepoName?): git clone of the
\* chosen URL into the session's sandbox; a failed clone is rethrown
cloneRepo ==
    /\ remote.pc = "run"
    /\ \E s \in Sessions, forked \in BOOLEAN, ok \in BOOLEAN :
        /\ remote.at[s] = "start"
        /\ remote' =
             IF ok
             THEN [remote EXCEPT
                     !.at[s] = "cloned",
                     !.origin[s] = cloneTarget(remote.variant, forked)]
             ELSE [remote EXCEPT !.at[s] = "failed"]
    /\ UNCHANGED <<orchVars, scoreIn, pr, git, branch, fork, url, sbx, fx,
                   store, run>>

\* createBranch(repoDir, branchName): git fetch origin <branch> and git
\* checkout <branch>; when either fails, git checkout -b <branch> from the
\* cloned default branch.  The fetch can succeed only when the remote has
\* the branch.
createBranch ==
    /\ remote.pc = "run"
    /\ \E s \in Sessions, fetched \in BOOLEAN :
        LET t == remote.origin[s].target
        IN  /\ remote.at[s] = "cloned"
            /\ fetched => t \in remote.exists
            /\ remote' =
                 [remote EXCEPT
                    !.at[s] = "branch",
                    !.local[s] = IF fetched THEN remote.heads[t] ELSE <<>>]
    /\ UNCHANGED <<orchVars, scoreIn, pr, git, branch, fork, url, sbx, fx,
                   store, run>>

\* commitChanges in the sandbox of one session: a new commit on the local
\* healing branch
RemoteCommit ==
    /\ remote.pc = "run"
    /\ \E s \in Sessions :
        LET own == Cardinality({c \in Members(remote.local[s]) : c[1] = s})
        IN  /\ remote.at[s] = "branch"
            /\ own < MaxCalls
            /\ remote' =
                 [remote EXCEPT
                    !.local[s] = Append(remote.local[s], <<s, own + 1>>)]
    /\ UNCHANGED <<orchVars, scoreIn, pr, git, branch, fork, url, sbx, fx,
                   store, run>>

\* pushBranch(repoDir, branchName): git push -u origin <branch> --force; a
\* failed push is rethrown as "Failed to push" and leaves the remote as it
\* was.  The push carries the credentials of the origin URL only.
pushBranch ==
    /\ remote.pc = "run"
    /\ \E s \in Sessions, ok \in BOOLEAN :
        LET t == remote.origin[s].target
            seen == IF remote.origin[s].token THEN remote.anon
                    ELSE remote.anon \cup {s}
        IN  /\ remote.at[s] = "branch"
            /\ remote' =
                 IF ok
                 THEN [remote EXCEPT
                         !.heads[t] = ForcePush(remote.heads[t],
                                                remote.local[s]),
                         !.exists = remote.exists \cup {t},
                         !.last[t] = s,
                         !.sent[s] = {c \in Members(remote.local[s]) :
                                         c[1] = s},
                         !.anon = seen]
                 ELSE [remote EXCEPT !.anon = seen]
    /\ UNCHANGED <<orchVars, scoreIn, pr, git, branch, fork, url, sbx, fx,
                   store, run>>

SpecRemote ==
    InitRemote
    /\ [][cloneRepo \/ createBranch \/ RemoteCommit \/ pushBranch]_vars

\* ------------------------------------------------------------------- C39
\* as stated: the commits a session has pushed are in the remote healing
\* branch whatever the other session has pushed since
C39_AsStated ==
    \A s \in Sessions :
        remote.at[s] = "branch" =>
            remote.sent[s] \subseteq
                Members(remote.heads[remote.origin[s].target])

\* C39: two sessions push the same healing branch of the same remote with
\* --force, so the last successful push wins: the remote branch is the local
\* branch of the session that pushed last, as it was at that push, and the
\* commits of the other session are in it only when that local branch was
\* checked out from the remote after they were pushed
C39_LastPushWins ==
    \A t \in remote.exists :
        /\ remote.last[t] \in Sessions
        /\ remote.origin[remote.last[t]].target = t
        /\ IsPrefix(remote.heads[t], remote.local[remote.last[t]])
        /\ \A s \in Sessions :
              remote.sent[s] \cap Members(remote.heads[t]) \subseteq
                  Members(remote.local[remote.last[t]])

\* both sessions have pushed to the same remote; the second push carried a
\* branch created before the first push, and the first session's commit is
\* no longer in the remote branch
C39_Witness ==
    /\ remote.pc = "run"
    /\ remote.origin[1].target = remote.origin[2].target
    /\ remote.sent[1] # {}
    /\ remote.sent[2] # {}
    /\ remote.last[remote.origin[1].target] = 2
    /\ ~(remote.sent[1] \subseteq
            Members(remote.heads[remote.origin[1].target]))

\* ------------------------------------------------------------------- C40
\* C40: whenever the sandbox is cloned from the original repository, the
\* origin URL carries the bot token as it does for a fork, in both variants
\* of cloneRepo, so no push goes to origin without the token
C40_AsStated ==
    /\ \A s \in Sessions :
          remote.origin[s].target = "original" => remote.origin[s].token
    /\ remote.anon = {}

\* the second variant has cloned the original repository by its plain URL
\* and a push to that origin has been attempted
C40_Witness ==
    /\ remote.variant = "second"
    /\ \E s \in remote.anon :
          /\ remote.origin[s].target = "original"
          /\ ~remote.origin[s].token

\* the first variant clones the original repository with the token
C40_FirstVariantWitness ==
    /\ remote.variant = "first"
    /\ \E s \in Sessions :
          /\ remote.origin[s].target = "original"
          /\ remote.origin[s].token
          /\ remote.at[s] = "branch"

====
